---- MODULE Spec2Model ----
(***************************************************************************)
(* Model of the in-memory stores of the payments service                   *)
(* (src/backend/services/payments/main.cpp: PaymentLedger, InvoiceLedger,  *)
(* LoyaltyEngine) and of the jobs service                                  *)
(* (src/backend/services/jobs/main.cpp: JobStore), with the HTTP handlers  *)
(* that call them.                                                         *)
(*                                                                         *)
(* Spec runs whole payment ledger operations one after the other (each     *)
(* action is one call of a PaymentLedger method the way its HTTP handler   *)
(* issues it).  ConcSpec runs the same methods from several request        *)
(* threads, one statement group at a time, with the std::mutex of the      *)
(* ledger modelled explicitly.  InvoiceSpec and LoyaltySpec run the        *)
(* invoice ledger and the loyalty engine.  JobSpec runs every operation    *)
(* that changes the job store; UnlockSpec, MessageSpec and ContactSpec run *)
(* the operations around unlocking, messages and the answers that carry a  *)
(* contact policy, with more of their inputs; PolicySpec runs the          *)
(* operations on one job with every role and token.  These start from      *)
(* Init.  CheckoutRateSpec and CheckoutInvoiceSpec run the whole           *)
(* POST /payments/checkout handler, request after request, from stores     *)
(* that hold earlier checkouts (CheckoutInit); RaceSpec runs the handler   *)
(* on concurrent request threads, one store call at a time.                *)
(* RepositorySpec calls SerializeStringArray and ParseStringArray of the   *)
(* accounts repository                                                     *)
(* (src/backend/common/persistence/accounts_repository_utils.cpp).         *)
(*                                                                         *)
(* Abstractions: a double fee rate is a whole number of thousandths, so    *)
(* amount * rate is exact; strings that no operation inspects (method,     *)
(* account names, ...) are drawn from one-element sets; the handlers are   *)
(* entered with a request that passed authorization and body validation.   *)
(***************************************************************************)
EXTENDS Integers, Sequences, FiniteSets, TLC

VARIABLES
    ledger_,            \* PaymentLedger::ledger_          id -> PaymentRecord
    trust_payouts_,     \* PaymentLedger::trust_payouts_   payment id -> TrustPayout
    checkouts_,         \* PaymentLedger::checkouts_       receipt id -> CheckoutReceipt
    checkout_lookup_,   \* PaymentLedger::checkout_lookup_ payment id -> receipt id
    checkout_order_,    \* PaymentLedger::checkout_order_  sequence of receipt ids
    last,               \* the response to the last call: operation, id, outcome
    ops,                \* number of ledger calls made so far
    mutex_,             \* PaymentLedger::mutex_: the set of threads holding it
    pc,                 \* per request thread: position inside its ledger call
    call,               \* per request thread: the ledger call it runs
    ret,                \* per request thread: what the call returned
    invoices_,          \* InvoiceLedger::invoices_        id -> InvoiceRecord
    completion_counts_, \* LoyaltyEngine::completion_counts_  conveyancer -> int
    completed_jobs_,    \* LoyaltyEngine::completed_jobs_  conveyancer -> set of job ids
    jobs_,              \* JobStore::jobs_                 id -> Job
    first_unlock        \* job id -> what the call of UnlockContact that last
                        \* unlocked a job of that id wrote (history)

ledgerVars == <<ledger_, trust_payouts_, checkouts_, checkout_lookup_, checkout_order_>>
threadVars == <<mutex_, pc, call, ret>>
jobVars == <<jobs_, first_unlock>>
serviceVars == <<invoices_, completion_counts_, completed_jobs_, jobs_, first_unlock>>
vars == <<ledger_, trust_payouts_, checkouts_, checkout_lookup_, checkout_order_, last,
          ops, mutex_, pc, call, ret, invoices_, completion_counts_, completed_jobs_,
          jobs_, first_unlock>>

----------------------------------------------------------------------------
(* Bounds of the model *)

IdSpan == 2          \* how many of the 90000 random id suffixes are explored
MaxCheckouts == 2    \* cap on the length of checkout_order_
MaxOps == 5          \* how many ledger calls a run of Spec makes
NumThreads == 2      \* request threads of ConcSpec

----------------------------------------------------------------------------
(* Values *)

kHeld == "held"
kReleased == "released"
kRefunded == "refunded"

\* std::nullopt of an optional<string>; not a value any string field takes
Nullopt == "nullopt"

INT_MAX == 2147483647

DistributionMin == 10000

\* GenerateId: prefix + a uniformly random number of the distribution.  The
\* result is any id of the range; nothing compares it with the ids in use.
GenerateId(prefix) ==
    {prefix \o ToString(n) : n \in DistributionMin..(DistributionMin + IdSpan - 1)}

HoldIds == GenerateId("hold_")
CheckoutIds == GenerateId("chk_")
PayoutIds == GenerateId("payout_")

\* processed_at values of checkout requests
Timestamps == {"2024-03-01T00:00:00Z", "2024-03-02T00:00:00Z"}

\* released_at, refunded_at and processed_at of release, refund and payout requests
ReleasedAt == "2024-03-05T00:00:00Z"
RefundedAt == "2024-03-03T00:00:00Z"
PayoutAt == "2024-03-04T00:00:00Z"

\* Bodies of POST /payments/hold that pass the handler's validation: the hold
\* of 5000.00 and one whose amount is close to the largest int
ScenarioHold ==
    [job_id |-> "job_1", milestone_id |-> "ms_1", currency |-> "AUD",
     amount_cents |-> 500000, reference |-> "ref",
     conveyancer_account_id |-> "conv_1"]

LargeHold ==
    [job_id |-> "job_2", milestone_id |-> "ms_1", currency |-> "AUD",
     amount_cents |-> 2140000000, reference |-> "ref",
     conveyancer_account_id |-> ""]

HoldRequests == {ScenarioHold, LargeHold}

\* service_fee_rate in thousandths: 0.015
ServiceFeeRates == {15}

\* invoice_id argument of Checkout: absent, or the id of an invoice
InvoiceIdArgs == {Nullopt}

----------------------------------------------------------------------------
(* Pure functions *)

\* std::llround(amount_cents * service_fee_rate) for amount_cents >= 0 and a
\* rate >= 0 in thousandths: round half away from zero.  The product is split
\* so that no intermediate value leaves the 32-bit range.
LlroundProduct(amount_cents, rate) ==
    (amount_cents \div 1000) * rate
        + (((amount_cents % 1000) * rate + 500) \div 1000)

\* a + b on int, both >= 0.  Signed overflow is undefined behaviour; the
\* outcome a build produces that lets the run go on is the wrapped value (a
\* trapping build ends the process, which adds no state).
IntAddOutcomes(a, b) ==
    IF a <= INT_MAX - b
      THEN {a + b}
      ELSE {((a - INT_MAX) - 1) + ((b - INT_MAX) - 1)}

NewPaymentRecord(id, req) ==
    [id |-> id, job_id |-> req.job_id, milestone_id |-> req.milestone_id,
     currency |-> req.currency, amount_cents |-> req.amount_cents,
     reference |-> req.reference,
     conveyancer_account_id |-> req.conveyancer_account_id,
     status |-> kHeld, released_at |-> Nullopt, refunded_at |-> Nullopt]

\* f with key k set to v, k added when it is new (operator[] of unordered_map)
Put(f, k, v) == [x \in (DOMAIN f) \cup {k} |-> IF x = k THEN v ELSE f[x]]

\* HTTP statuses the handlers write
HttpOk == 200
HttpCreated == 201
HttpConflict == 409

\* What a handler answers: the operation, the id it was about, whether the
\* ledger returned a value, the HTTP status and the "error" code of the body
Result(op, id, ok, status, error) ==
    [op |-> op, id |-> id, ok |-> ok, status |-> status, error |-> error]

\* Release: the status that makes the call return std::nullopt
ReleaseRejects(record) == record.status = kRefunded

\* Release: the record after the three assignments
ReleaseUpdate(record, released_at) ==
    [record EXCEPT !.status = kReleased, !.released_at = released_at,
                   !.refunded_at = Nullopt]

\* Refund without its status guard
RefundRejectsNothing(record) == FALSE

\* Refund: the status that makes the call return std::nullopt
RefundRejects(record) == record.status = kReleased

\* Refund that sets the status and forgets to stamp refunded_at
RefundUpdateUnstamped(record, refunded_at) ==
    [record EXCEPT !.status = kRefunded, !.released_at = Nullopt]

\* Refund: the record after the three assignments
RefundUpdate(record, refunded_at) ==
    [record EXCEPT !.status = kRefunded, !.refunded_at = refunded_at,
                   !.released_at = Nullopt]

\* RecordPayout: the condition on the found record that makes it return nullopt
PayoutRejectsPaidOut(record) == record.status # kReleased \/ record.id \in DOMAIN trust_payouts_

PayoutRejects(record) == record.status # kReleased

NewTrustPayout(id, payment_id, processed_at) ==
    [id |-> id, payment_id |-> payment_id, account_name |-> "Trust Account",
     account_number |-> "12345678", bsb |-> "062000",
     reference |-> "ESCROW_PAYOUT", processed_at |-> processed_at]

\* Checkout guarded the way Release is: only a refunded payment is refused
CheckoutRejectsRefundedOnly(record) == record.status = kRefunded

\* Checkout: the condition on the found record that makes it return nullopt
CheckoutRejects(record) == record.status # kHeld

\* Checkout: the receipt built from the record; total_cents is the int sum
NewReceipt(id, record, method, service_fee_rate, processed_at, invoice_id, total) ==
    [id |-> id, payment_id |-> record.id, job_id |-> record.job_id,
     method |-> method, currency |-> record.currency,
     reference |-> record.reference,
     hold_amount_cents |-> record.amount_cents,
     service_fee_rate |-> service_fee_rate,
     service_fee_cents |-> LlroundProduct(record.amount_cents, service_fee_rate),
     total_cents |-> total, processed_at |-> processed_at,
     invoice_id |-> IF invoice_id = Nullopt THEN "" ELSE invoice_id]

\* Checkout: the record after the three assignments
CheckoutUpdate(record, processed_at) ==
    [record EXCEPT !.status = kReleased, !.released_at = processed_at,
                   !.refunded_at = Nullopt]

\* The responses of the release, refund, payout and checkout handlers to what
\* the ledger call returned
ReleaseResponse(id, ok) ==
    IF ok THEN Result("Release", id, TRUE, HttpOk, "")
          ELSE Result("Release", id, FALSE, HttpConflict, "invalid_transition")

RefundResponse(id, ok) ==
    IF ok THEN Result("Refund", id, TRUE, HttpOk, "")
          ELSE Result("Refund", id, FALSE, HttpConflict, "invalid_transition")

PayoutResponse(id, ok) ==
    IF ok THEN Result("RecordPayout", id, TRUE, HttpOk, "")
          ELSE Result("RecordPayout", id, FALSE, HttpConflict, "payout_not_available")

CheckoutResponse(id, ok) ==
    IF ok THEN Result("Checkout", id, TRUE, HttpCreated, "")
          ELSE Result("Checkout", id, FALSE, HttpConflict, "hold_not_available")

----------------------------------------------------------------------------
(* Invoice ledger (class InvoiceLedger): values and pure functions *)

kDraft == "draft"
kIssued == "issued"
kPaid == "paid"
kVoided == "voided"

ParseAsDraft(status) == kDraft

\* ParseInvoiceStatus: the three names it knows, everything else is a draft
ParseInvoiceStatus(status) ==
    CASE status = "issued" -> kIssued
      [] status = "paid" -> kPaid
      [] status = "voided" -> kVoided
      [] OTHER -> kDraft

\* "status" strings of POST /payments/invoices/{id}/status
StatusArgs == {"issued", "paid", "voided", "draft", "cancelled"}

InvoiceIds == GenerateId("inv_")

\* An InvoiceLine.  tax_rate is a whole number of thousandths; the rates used
\* are 0.0, 0.125 and 1.0, which a double holds exactly, and 0.1, whose double
\* lies above 0.1 by less than 1e-17, so that truncating the double product
\* with an int amount gives the same int as truncating the exact product.
InvoiceLine(amount_cents, tax_rate) ==
    [description |-> "Fee", amount_cents |-> amount_cents, tax_rate |-> tax_rate]

\* Line lists of invoice requests after the handlers' filtering (amount > 0,
\* rate clamped to [0, 1]): the single line of 100.00 at 10%, two small lines
\* whose taxes both lose a fraction, a line at 12.5% with an untaxed one, and
\* two lines of the largest int at 100%
ScenarioLines == <<InvoiceLine(10000, 100)>>
SmallLines == <<InvoiceLine(15, 100), InvoiceLine(15, 100)>>
MixedLines == <<InvoiceLine(20, 125), InvoiceLine(7, 0)>>
LargeLines == <<InvoiceLine(INT_MAX, 1000), InvoiceLine(INT_MAX, 1000)>>

InvoiceRequests ==
    {[job_id |-> "job_1", recipient |-> "job_1-client", issued_at |-> "2024-03-01",
      due_at |-> "2024-03-15", lines |-> l] :
        l \in {ScenarioLines, SmallLines, MixedLines, LargeLines}}

\* a + b on int.  Signed overflow is undefined behaviour; as in
\* IntAddOutcomes the outcome that lets the run go on is the value wrapped
\* into the 32-bit range.
IntAdd(a, b) ==
    IF b >= 0 /\ a > INT_MAX - b
      THEN ((a - INT_MAX) - 1) + ((b - INT_MAX) - 1)
    ELSE IF b < 0 /\ a < ((0 - INT_MAX) - 1) - b
      THEN ((a + INT_MAX) + 1) + ((b + INT_MAX) + 1)
    ELSE a + b

\* static_cast<int>(line.amount_cents * line.tax_rate): the product truncated
\* toward zero, for amount_cents > 0 and a rate of 0 to 1000 thousandths.  The
\* product is split so that no intermediate value leaves the 32-bit range.
LineTax(line) ==
    (line.amount_cents \div 1000) * line.tax_rate
        + (((line.amount_cents % 1000) * line.tax_rate) \div 1000)

\* Recalculate: the two accumulators after the loop over the first n lines
RECURSIVE Subtotal(_, _)
Subtotal(lines, n) ==
    IF n = 0 THEN 0
    ELSE IntAdd(Subtotal(lines, n - 1), lines[n].amount_cents)

RECURSIVE Tax(_, _)
Tax(lines, n) ==
    IF n = 0 THEN 0
    ELSE IntAdd(Tax(lines, n - 1), LineTax(lines[n]))

\* Recalculate: the invoice with its three totals assigned
Recalculate(invoice) ==
    LET subtotal == Subtotal(invoice.lines, Len(invoice.lines))
        tax == Tax(invoice.lines, Len(invoice.lines))
    IN  [invoice EXCEPT !.subtotal_cents = subtotal, !.tax_cents = tax,
                        !.total_cents = IntAdd(subtotal, tax)]

\* CreateInvoice: the record before Recalculate
NewInvoiceRecord(id, req) ==
    [id |-> id, job_id |-> req.job_id, recipient |-> req.recipient,
     status |-> kDraft, lines |-> req.lines, subtotal_cents |-> 0,
     tax_cents |-> 0, total_cents |-> 0, issued_at |-> req.issued_at,
     due_at |-> req.due_at]

HttpNotFound == 404

----------------------------------------------------------------------------
(* Loyalty engine (class LoyaltyEngine): values and pure functions *)

MaxJobs == 8         \* job ids a conveyancer can be credited with

Tier(threshold, rate, name, badge) ==
    [threshold |-> threshold, rate |-> rate, name |-> name, badge |-> badge]

\* A tier table whose rates rise with the threshold
TiersRising ==
    << Tier(0, 12, "Launch", "ConveySafe Launch"),
       Tier(3, 15, "Trusted Partner", "ConveySafe Trusted"),
       Tier(8, 18, "Preferred Partner", "ConveySafe Preferred") >>

\* LoyaltyEngine::tiers_ as the constructor fills it; rates in thousandths
tiers_ ==
    << Tier(0, 18, "Launch", "ConveySafe Launch"),
       Tier(3, 15, "Trusted Partner", "ConveySafe Trusted"),
       Tier(8, 12, "Preferred Partner", "ConveySafe Preferred") >>

\* The loop of ResolveTierForCount from tier i on, result being the tier
\* picked so far
RECURSIVE ResolveTierFrom(_, _, _)
ResolveTierFrom(count, i, result) ==
    IF i > Len(tiers_) THEN result
    ELSE ResolveTierFrom(count, i + 1,
                         IF count >= tiers_[i].threshold THEN tiers_[i] ELSE result)

\* The first tier whatever the count
ResolveFirstTier(count) == tiers_[1]

ResolveTierForCount(count) == ResolveTierFrom(count, 1, tiers_[1])

CompletedCountUnlocked(conveyancer_id) ==
    IF conveyancer_id \in DOMAIN completion_counts_
      THEN completion_counts_[conveyancer_id]
      ELSE 0

ResolveRate(conveyancer_id) ==
    IF conveyancer_id = ""
      THEN tiers_[1].rate
      ELSE ResolveTierForCount(CompletedCountUnlocked(conveyancer_id)).rate

\* A count that grows with every call
CountEveryCall(count, jobs, inserted) == count + 1

\* RecordCheckout: completion_counts_[conveyancer_id] after the call, jobs
\* being the set after the insert and inserted what insert(...).second was
RecordedCount(count, jobs, inserted) ==
    IF inserted THEN Cardinality(jobs) ELSE count

\* conveyancer_account_id of the holds checked out, job ids of those holds,
\* and the account ids whose rate is asked for ("conv_2" is never credited)
Conveyancers == {"", "conv_1"}
LoyaltyJobs == {"job_" \o ToString(n) : n \in 1..MaxJobs}
LoyaltyQueries == {"", "conv_1", "conv_2"}

----------------------------------------------------------------------------
(* Jobs service (src/backend/services/jobs/main.cpp): message detectors.   *)
(* The three regular expressions are matched character by character, on   *)
(* the sequence of one-character strings that spells a message body.       *)

Uppers ==
    << "A", "B", "C", "D", "E", "F", "G", "H", "I", "J", "K", "L", "M", "N",
       "O", "P", "Q", "R", "S", "T", "U", "V", "W", "X", "Y", "Z" >>
Lowers ==
    << "a", "b", "c", "d", "e", "f", "g", "h", "i", "j", "k", "l", "m", "n",
       "o", "p", "q", "r", "s", "t", "u", "v", "w", "x", "y", "z" >>

Range(s) == {s[i] : i \in DOMAIN s}

Letters == Range(Uppers) \cup Range(Lowers)
Digits == {"0", "1", "2", "3", "4", "5", "6", "7", "8", "9"}
\* \s of the regular expressions
Spaces == {" ", "\t", "\n", "\r"}

\* std::regex::icase: a letter stands for both its cases
Lower(c) ==
    IF c \in Range(Uppers)
      THEN Lowers[CHOOSE i \in DOMAIN Uppers : Uppers[i] = c]
      ELSE c

\* The lower-case word w stands in s at position i, whatever the case
HasAt(s, i, w) ==
    /\ i >= 1
    /\ i + Len(w) - 1 <= Len(s)
    /\ \A k \in 1..Len(w) : Lower(s[i + k - 1]) = w[k]

\* The n characters of s from position i on exist and belong to class
RunAt(s, i, n, class) ==
    /\ i >= 1
    /\ i + n - 1 <= Len(s)
    /\ \A k \in i..(i + n - 1) : s[k] \in class

\* kEmailPattern  ([A-Z0-9._%+-]+)@([A-Z0-9.-]+\.[A-Z]{2,})  matches somewhere
MatchesEmailPattern(s) ==
    \E i \in 2..Len(s) :
        /\ s[i] = "@"
        /\ s[i - 1] \in Letters \cup Digits \cup {".", "_", "%", "+", "-"}
        /\ \E j \in (i + 2)..Len(s) :
               /\ s[j] = "."
               /\ RunAt(s, i + 1, j - i - 1, Letters \cup Digits \cup {".", "-"})
               /\ RunAt(s, j + 1, 2, Letters)

\* kPhonePattern  (\+?61|0)[0-9\s-]{8,}  matches somewhere
MatchesPhonePattern(s) ==
    \E i \in 1..Len(s) :
        \/ s[i] = "0" /\ RunAt(s, i + 1, 8, Digits \cup Spaces \cup {"-"})
        \/ HasAt(s, i, <<"6", "1">>) /\ RunAt(s, i + 2, 8, Digits \cup Spaces \cup {"-"})

\* The words of kOffPlatformPattern that hold no white space
OffPlatformWords ==
    { <<"w", "h", "a", "t", "s", "a", "p", "p">>,
      <<"s", "i", "g", "n", "a", "l">>,
      <<"t", "e", "l", "e", "g", "r", "a", "m">>,
      <<"z", "o", "o", "m">> }

\* kOffPlatformPattern
\* (whatsapp|signal|telegram|zoom|meet\s?link|call\s+me|email\s+me) matches
\* somewhere
MatchesOffPlatformPattern(s) ==
    \E i \in 1..Len(s) :
        \/ \E w \in OffPlatformWords : HasAt(s, i, w)
        \/ /\ HasAt(s, i, <<"m", "e", "e", "t">>)
           /\ \/ HasAt(s, i + 4, <<"l", "i", "n", "k">>)
              \/ RunAt(s, i + 4, 1, Spaces) /\ HasAt(s, i + 5, <<"l", "i", "n", "k">>)
        \/ \E n \in 1..Len(s) :
              /\ HasAt(s, i, <<"c", "a", "l", "l">>)
              /\ RunAt(s, i + 4, n, Spaces)
              /\ HasAt(s, i + 4 + n, <<"m", "e">>)
        \/ \E n \in 1..Len(s) :
              /\ HasAt(s, i, <<"e", "m", "a", "i", "l">>)
              /\ RunAt(s, i + 5, n, Spaces)
              /\ HasAt(s, i + 5 + n, <<"m", "e">>)

ContainsContactCoordinates(text) ==
    MatchesEmailPattern(text) \/ MatchesPhonePattern(text)

ContainsOffPlatformHint(text) == MatchesOffPlatformPattern(text)

\* Message bodies of POST /jobs/{id}/chat: one that matches nothing, one with
\* an e-mail address, one with a messenger's name, and the body with a phone
\* number and "call me"
PlainBody == "Searches lodged with LPI."
EmailBody == "Reach me at kim@example.com"
MessengerBody == "Ping me on WhatsApp"
PhoneBody == "Call me on 0412 345 678"

Bodies == {PlainBody, EmailBody, MessengerBody, PhoneBody}

\* The characters of each body, which the patterns are matched against
Characters ==
    PlainBody :> << "S", "e", "a", "r", "c", "h", "e", "s", " ", "l", "o", "d",
                   "g", "e", "d", " ", "w", "i", "t", "h", " ", "L", "P", "I",
                   "." >> @@
    EmailBody :> << "R", "e", "a", "c", "h", " ", "m", "e", " ", "a", "t", " ",
                   "k", "i", "m", "@", "e", "x", "a", "m", "p", "l", "e", ".",
                   "c", "o", "m" >> @@
    MessengerBody :> << "P", "i", "n", "g", " ", "m", "e", " ", "o", "n", " ", "W",
                       "h", "a", "t", "s", "A", "p", "p" >> @@
    PhoneBody :> << "C", "a", "l", "l", " ", "m", "e", " ", "o", "n", " ", "0",
                   "4", "1", "2", " ", "3", "4", "5", " ", "6", "7", "8" >>

----------------------------------------------------------------------------
(* Jobs service: contact policies and job records.  Of a Job the model     *)
(* keeps id, status, conveyancer_id, completed_at, messages, disputes,     *)
(* risk_level, compliance_notes, contact_policy, compliance_flags and      *)
(* certificate.  Names, titles, IP addresses, the clock readings other     *)
(* than unlocked_at and completed_at, and the milestones, documents and    *)
(* calls lists are left out: an operation on one of those lists keeps its  *)
(* lookup of the job and its writes to the fields that are kept, and       *)
(* whether it finds the list entry it names is left open.                  *)

\* Stands for the bullet U+2022 of the masks
Bullet == "*"

RECURSIVE Bullets(_)
Bullets(n) == IF n <= 0 THEN "" ELSE Bullet \o Bullets(n - 1)

\* An e-mail address that kEmailPattern matches from its first character to
\* its last: the first min(2, size) characters of the local part, the rest
\* of the local part, and the domain
Email(head, tail, domain) == [head |-> head, tail |-> tail, domain |-> domain]

EmailText(e) == e.head \o e.tail \o "@" \o e.domain

\* MaskEmail for such an address: local.substr(0, 2) + three bullets + "@" + domain
MaskEmail(e) == e.head \o Bullets(3) \o "@" \o e.domain

\* A phone number of four digits or more: the text before its last three
\* digits, the number of digits in that text, and the last three digits
Phone(lead, lead_digits, last3) ==
    [lead |-> lead, lead_digits |-> lead_digits, last3 |-> last3]

PhoneText(p) == p.lead \o p.last3

\* MaskPhone for such a number: one bullet per digit but the last three
MaskPhone(p) == Bullets(p.lead_digits) \o p.last3

\* The decimal digits of n >= 100: how many there are, all but the last
\* three, and the last three
RECURSIVE NumDigits(_)
NumDigits(n) == IF n < 10 THEN 1 ELSE 1 + NumDigits(n \div 10)

LeadDigits(n) == IF n < 1000 THEN "" ELSE ToString(n \div 1000)

Last3(n) ==
    LET d == n % 1000
    IN  (IF d < 10 THEN "00" ELSE IF d < 100 THEN "0" ELSE "") \o ToString(d)

\* Ids are a prefix of four characters and a number, "job_2002", "pro_1001":
\* id.substr(4) is the number's digits
JobId(n) == "job_" \o ToString(n)
ConveyancerId(n) == "pro_" \o ToString(n)

\* An absent override (the empty string of the code) is the empty set, a
\* given one the set of its value
Overridden(override, default) ==
    IF override = {} THEN default ELSE CHOOSE v \in override : TRUE

\* GenerateContactPolicy for job number job and conveyancer number conveyancer
GenerateContactPolicy(job, conveyancer, buyer_email_override, buyer_phone_override, seller_email_override, seller_phone_override) ==
    LET client_phone ==
            Phone("+611300" \o LeadDigits(job), 6 + NumDigits(job) - 3, Last3(job))
        buyer_email ==
            Overridden(buyer_email_override,
                       Email("bu", "yer-" \o JobId(job), "clients.conveysafe"))
        buyer_phone == Overridden(buyer_phone_override, client_phone)
        seller_email ==
            Overridden(seller_email_override,
                       Email("se", "ller-" \o JobId(job), "clients.conveysafe"))
        seller_phone == Overridden(seller_phone_override, client_phone)
        conveyancer_email ==
            Email("pr", "o_" \o ToString(conveyancer), "pro.conveysafe")
        conveyancer_phone ==
            Phone("+612800" \o LeadDigits(conveyancer),
                  6 + NumDigits(conveyancer) - 3, Last3(conveyancer))
    IN  [unlocked |-> FALSE, unlocked_at |-> Nullopt, unlocked_by_role |-> "",
         buyer_email |-> buyer_email, buyer_phone |-> buyer_phone,
         seller_email |-> seller_email, seller_phone |-> seller_phone,
         conveyancer_email |-> conveyancer_email,
         conveyancer_phone |-> conveyancer_phone,
         buyer_email_masked |-> MaskEmail(buyer_email),
         buyer_phone_masked |-> MaskPhone(buyer_phone),
         seller_email_masked |-> MaskEmail(seller_email),
         seller_phone_masked |-> MaskPhone(seller_phone),
         conveyancer_email_masked |-> MaskEmail(conveyancer_email),
         conveyancer_phone_masked |-> MaskPhone(conveyancer_phone)]

Message(id, sender, body) == [id |-> id, sender |-> sender, body |-> body]

Dispute(id, status) == [id |-> id, status |-> status]

CompletionCertificate(id, job_id, summary, issued_at) ==
    [id |-> id, job_id |-> job_id, summary |-> summary, issued_at |-> issued_at]

\* JobStore::Seed: the three jobs of the constructor
SeedJob1 ==
    [id |-> JobId(2001), status |-> "in_progress", conveyancer_id |-> ConveyancerId(1002),
     completed_at |-> Nullopt,
     messages |-> << Message("msg_1", "Emily Carter", "Thanks for the update on finance."),
                     Message("msg_2", "Sydney Settlements", "Searches lodged with LPI.") >>,
     disputes |-> << >>,
     risk_level |-> "low",
     compliance_notes |-> "KYC complete for both parties",
     contact_policy |->
         [GenerateContactPolicy(2001, 1002,
              {Email("em", "ily.carter", "propertymail.example")},
              {Phone("+61400987", 8, "654")},
              {Email("li", "am.nguyen", "sellers.example")},
              {Phone("+61418882", 8, "211")})
          EXCEPT !.unlocked = TRUE, !.unlocked_by_role = "finance_admin",
                 !.unlocked_at = "2024-02-12T00:30:00Z"],
     compliance_flags |-> << "contact_coordinates:msg_1" >>,
     certificate |-> {}]

SeedJob2 ==
    [SeedJob1 EXCEPT
       !.id = JobId(2002), !.status = "awaiting_client",
       !.conveyancer_id = ConveyancerId(1001),
       !.contact_policy =
           GenerateContactPolicy(2002, 1001,
               {Email("ol", "iver.bennett", "buyers.example")},
               {Phone("+61415555", 8, "510")},
               {Email("de", "veloper", "vendor.example")},
               {Phone("+61295550", 8, "123")}),
       !.compliance_flags = << >>]

SeedJob3 ==
    [SeedJob1 EXCEPT
       !.id = JobId(2003), !.status = "completed",
       !.conveyancer_id = ConveyancerId(1001),
       !.completed_at = "2024-01-15T02:10:00Z",
       !.compliance_notes = "Settlement complete, certificate issued",
       !.contact_policy =
           [GenerateContactPolicy(2003, 1001,
                {Email("so", "phie.walker", "clientmail.example")},
                {Phone("+61400011", 8, "222")},
                {Email("po", "rtfolio.team", "nationalbank.example")},
                {Phone("+61280008", 8, "888")})
            EXCEPT !.unlocked = TRUE, !.unlocked_by_role = "finance_admin",
                   !.unlocked_at = "2023-12-01T01:00:00Z"],
       !.compliance_flags = << "off_platform_hint:msg_1" >>,
       !.certificate =
           {CompletionCertificate("cert_seed_1", JobId(2003),
                "Refinance settled with all funds reconciled",
                "2024-01-15T02:10:00Z")}]

Seed ==
    [id \in {SeedJob1.id, SeedJob2.id, SeedJob3.id} |->
        CASE id = SeedJob1.id -> SeedJob1
          [] id = SeedJob2.id -> SeedJob2
          [] id = SeedJob3.id -> SeedJob3]

----------------------------------------------------------------------------
(* Ledger operations, each one whole call under the ledger's lock *)

Init ==
    /\ ledger_ = << >>
    /\ trust_payouts_ = << >>
    /\ checkouts_ = << >>
    /\ checkout_lookup_ = << >>
    /\ checkout_order_ = << >>
    /\ last = Result("none", Nullopt, FALSE, HttpOk, "")
    /\ ops = 0
    /\ mutex_ = {}
    /\ pc = << >>
    /\ call = << >>
    /\ ret = << >>
    /\ invoices_ = << >>
    /\ completion_counts_ = << >>
    /\ completed_jobs_ = << >>
    /\ jobs_ = Seed
    /\ first_unlock = << >>

\* Every call is counted, up to the budget of the run
Counted == ops < MaxOps /\ ops' = ops + 1

CreateHold(req) ==
    /\ \E id \in GenerateId("hold_") :
          /\ ledger_' = Put(ledger_, id, NewPaymentRecord(id, req))
          /\ last' = Result("CreateHold", id, TRUE, HttpCreated, "")
    /\ UNCHANGED <<trust_payouts_, checkouts_, checkout_lookup_, checkout_order_>>
    /\ Counted
    /\ UNCHANGED <<threadVars, serviceVars>>

Release(id, released_at) ==
    /\ IF id \notin DOMAIN ledger_
         THEN /\ UNCHANGED ledger_
              /\ last' = ReleaseResponse(id, FALSE)
         ELSE IF ReleaseRejects(ledger_[id])
         THEN /\ UNCHANGED ledger_
              /\ last' = ReleaseResponse(id, FALSE)
         ELSE /\ ledger_' = [ledger_ EXCEPT ![id] = ReleaseUpdate(@, released_at)]
              /\ last' = ReleaseResponse(id, TRUE)
    /\ UNCHANGED <<trust_payouts_, checkouts_, checkout_lookup_, checkout_order_>>
    /\ Counted
    /\ UNCHANGED <<threadVars, serviceVars>>

Refund(id, refunded_at) ==
    /\ IF id \notin DOMAIN ledger_
         THEN /\ UNCHANGED ledger_
              /\ last' = RefundResponse(id, FALSE)
         ELSE IF RefundRejects(ledger_[id])
         THEN /\ UNCHANGED ledger_
              /\ last' = RefundResponse(id, FALSE)
         ELSE /\ ledger_' = [ledger_ EXCEPT ![id] = RefundUpdate(@, refunded_at)]
              /\ last' = RefundResponse(id, TRUE)
    /\ UNCHANGED <<trust_payouts_, checkouts_, checkout_lookup_, checkout_order_>>
    /\ Counted
    /\ UNCHANGED <<threadVars, serviceVars>>

RecordPayout(payment_id, processed_at) ==
    /\ IF payment_id \notin DOMAIN ledger_ \/ PayoutRejects(ledger_[payment_id])
         THEN /\ UNCHANGED trust_payouts_
              /\ last' = PayoutResponse(payment_id, FALSE)
         ELSE \E id \in GenerateId("payout_") :
              LET payout == NewTrustPayout(id, payment_id, processed_at)
              IN /\ trust_payouts_' = Put(trust_payouts_, payment_id, payout)
                 /\ last' = [op |-> "RecordPayout", id |-> payment_id, ok |-> TRUE,
                             status |-> HttpOk, error |-> "", payout |-> payout,
                             replaced |-> payment_id \in DOMAIN trust_payouts_]
    /\ UNCHANGED <<ledger_, checkouts_, checkout_lookup_, checkout_order_>>
    /\ Counted
    /\ UNCHANGED <<threadVars, serviceVars>>

Checkout(payment_id, method, service_fee_rate, processed_at, invoice_id) ==
    /\ Len(checkout_order_) < MaxCheckouts
    /\ IF payment_id \notin DOMAIN ledger_
         THEN /\ UNCHANGED ledgerVars
              /\ last' = CheckoutResponse(payment_id, FALSE)
         ELSE IF CheckoutRejects(ledger_[payment_id])
         THEN /\ UNCHANGED ledgerVars
              /\ last' = CheckoutResponse(payment_id, FALSE)
         ELSE \E id \in GenerateId("chk_") :
              \E total \in IntAddOutcomes(
                      ledger_[payment_id].amount_cents,
                      LlroundProduct(ledger_[payment_id].amount_cents, service_fee_rate)) :
              /\ ledger_' = [ledger_ EXCEPT
                                ![payment_id] = CheckoutUpdate(@, processed_at)]
              /\ checkouts_' =
                     Put(checkouts_, id,
                         NewReceipt(id, ledger_[payment_id], method, service_fee_rate,
                                    processed_at, invoice_id, total))
              /\ checkout_lookup_' = Put(checkout_lookup_, payment_id, id)
              /\ checkout_order_' = Append(checkout_order_, id)
              /\ UNCHANGED trust_payouts_
              /\ last' = CheckoutResponse(payment_id, TRUE)
    /\ Counted
    /\ UNCHANGED <<threadVars, serviceVars>>

Next ==
    \/ \E req \in HoldRequests : CreateHold(req)
    \/ \E id \in HoldIds : Release(id, ReleasedAt)
    \/ \E id \in HoldIds : Refund(id, RefundedAt)
    \/ \E id \in HoldIds : RecordPayout(id, PayoutAt)
    \/ \E id \in HoldIds, r \in ServiceFeeRates, t \in Timestamps,
          inv \in InvoiceIdArgs : Checkout(id, "card", r, t, inv)

Spec == Init /\ [][Next]_vars

----------------------------------------------------------------------------
(* The ledger called from concurrent request threads.  Every method opens    *)
(* with std::lock_guard<std::mutex> lock(mutex_); the guard is released when *)
(* the method returns.  A call is run in four steps: take the lock, find the *)
(* record and test its status, write, return.                                *)

Threads == 1..NumThreads

\* The calls a thread can be running
Calls == [op : {"Release", "Refund", "Checkout"}, id : HoldIds]

\* The lock that never makes a thread wait
LockNeverBlocks(t) == TRUE

\* std::lock_guard's constructor returns once no other thread holds mutex_
LockAvailable(t) == mutex_ = {}

\* The status test of the call c on the record
Rejects(c, record) ==
    CASE c.op = "Release"  -> ReleaseRejects(record)
      [] c.op = "Refund"   -> RefundRejects(record)
      [] c.op = "Checkout" -> CheckoutRejects(record)

\* A ledger of Held payments as CreateHold calls leave it, and threads about
\* to make one call each
ConcInit ==
    /\ \E D \in SUBSET HoldIds \ {{}} :
          ledger_ = [id \in D |-> NewPaymentRecord(id, ScenarioHold)]
    /\ trust_payouts_ = << >>
    /\ checkouts_ = << >>
    /\ checkout_lookup_ = << >>
    /\ checkout_order_ = << >>
    /\ last = Result("none", Nullopt, FALSE, HttpOk, "")
    /\ ops = 0
    /\ mutex_ = {}
    /\ pc = [t \in Threads |-> "start"]
    /\ call \in [Threads -> Calls]
    /\ ret = [t \in Threads |-> "pending"]
    /\ invoices_ = << >>
    /\ completion_counts_ = << >>
    /\ completed_jobs_ = << >>
    /\ jobs_ = Seed
    /\ first_unlock = << >>

Lock(t) ==
    /\ pc[t] = "start"
    /\ LockAvailable(t)
    /\ mutex_' = mutex_ \cup {t}
    /\ pc' = [pc EXCEPT ![t] = "find"]
    /\ UNCHANGED <<ledgerVars, last, ops, call, ret, serviceVars>>

Find(t) ==
    /\ pc[t] = "find"
    /\ IF call[t].id \notin DOMAIN ledger_
         THEN /\ ret' = [ret EXCEPT ![t] = Nullopt]
              /\ pc' = [pc EXCEPT ![t] = "return"]
         ELSE IF Rejects(call[t], ledger_[call[t].id])
         THEN /\ ret' = [ret EXCEPT ![t] = Nullopt]
              /\ pc' = [pc EXCEPT ![t] = "return"]
         ELSE /\ ret' = ret
              /\ pc' = [pc EXCEPT ![t] = "write"]
    /\ UNCHANGED <<ledgerVars, last, ops, mutex_, call, serviceVars>>

Write(t) ==
    /\ pc[t] = "write"
    /\ LET id == call[t].id IN
       CASE call[t].op = "Release" ->
              /\ ledger_' = [ledger_ EXCEPT ![id] = ReleaseUpdate(@, ReleasedAt)]
              /\ UNCHANGED <<checkouts_, checkout_lookup_, checkout_order_>>
         [] call[t].op = "Refund" ->
              /\ ledger_' = [ledger_ EXCEPT ![id] = RefundUpdate(@, RefundedAt)]
              /\ UNCHANGED <<checkouts_, checkout_lookup_, checkout_order_>>
         [] call[t].op = "Checkout" ->
              \E c \in GenerateId("chk_") :
              \E r \in ServiceFeeRates :
              \E at \in Timestamps :
              \E total \in IntAddOutcomes(
                      ledger_[id].amount_cents,
                      LlroundProduct(ledger_[id].amount_cents, r)) :
              /\ ledger_' = [ledger_ EXCEPT ![id] = CheckoutUpdate(@, at)]
              /\ checkouts_' =
                     Put(checkouts_, c,
                         NewReceipt(c, ledger_[id], "card", r, at, Nullopt, total))
              /\ checkout_lookup_' = Put(checkout_lookup_, id, c)
              /\ checkout_order_' = Append(checkout_order_, c)
    /\ ret' = [ret EXCEPT ![t] = "value"]
    /\ pc' = [pc EXCEPT ![t] = "return"]
    /\ UNCHANGED <<trust_payouts_, last, ops, mutex_, call, serviceVars>>

Return(t) ==
    /\ pc[t] = "return"
    /\ mutex_' = mutex_ \ {t}
    /\ pc' = [pc EXCEPT ![t] = "done"]
    /\ UNCHANGED <<ledgerVars, last, ops, call, ret, serviceVars>>

ConcNext ==
    \/ \E t \in Threads : Lock(t)
    \/ \E t \in Threads : Find(t)
    \/ \E t \in Threads : Write(t)
    \/ \E t \in Threads : Return(t)

ConcSpec == ConcInit /\ [][ConcNext]_vars

----------------------------------------------------------------------------
(* Invoice ledger operations, each one whole call under the ledger's lock, *)
(* entered from POST /payments/invoices and POST /payments/invoices/{id}/status *)

CreateInvoice(req) ==
    /\ \E id \in GenerateId("inv_") :
          /\ invoices_' = Put(invoices_, id, Recalculate(NewInvoiceRecord(id, req)))
          /\ last' = Result("CreateInvoice", id, TRUE, HttpCreated, "")
    /\ UNCHANGED <<ledgerVars, ops, threadVars, completion_counts_, completed_jobs_, jobVars>>

\* The answer is kept together with the "status" string that was sent
UpdateStatus(id, status) ==
    /\ IF id \notin DOMAIN invoices_
         THEN /\ UNCHANGED invoices_
              /\ last' = Result("UpdateStatus", id, FALSE, HttpNotFound, "invoice_not_found")
                             @@ [arg |-> status]
         ELSE /\ invoices_' = [invoices_ EXCEPT ![id].status = ParseInvoiceStatus(status)]
              /\ last' = Result("UpdateStatus", id, TRUE, HttpOk, "") @@ [arg |-> status]
    /\ UNCHANGED <<ledgerVars, ops, threadVars, completion_counts_, completed_jobs_, jobVars>>

InvoiceNext ==
    \/ \E req \in InvoiceRequests : CreateInvoice(req)
    \/ \E id \in InvoiceIds : \E status \in StatusArgs : UpdateStatus(id, status)

InvoiceSpec == Init /\ [][InvoiceNext]_vars

----------------------------------------------------------------------------
(* Loyalty engine operations, each one whole call under the engine's lock *)

RecordCheckout(conveyancer_id, job_id) ==
    /\ IF conveyancer_id = ""
         THEN /\ UNCHANGED <<completion_counts_, completed_jobs_>>
              /\ last' = [op |-> "RecordCheckout", id |-> conveyancer_id,
                          job_id |-> job_id, inserted |-> FALSE]
         ELSE LET before == IF conveyancer_id \in DOMAIN completed_jobs_
                              THEN completed_jobs_[conveyancer_id] ELSE {}
                  inserted == job_id \notin before
                  jobs == before \cup {job_id}
                  count == RecordedCount(CompletedCountUnlocked(conveyancer_id),
                                         jobs, inserted)
              IN  /\ completed_jobs_' = Put(completed_jobs_, conveyancer_id, jobs)
                  /\ completion_counts_' =
                         IF inserted \/ conveyancer_id \in DOMAIN completion_counts_
                           THEN Put(completion_counts_, conveyancer_id, count)
                           ELSE completion_counts_
                  /\ last' = [op |-> "RecordCheckout", id |-> conveyancer_id,
                              job_id |-> job_id, inserted |-> inserted]
    /\ UNCHANGED <<ledgerVars, ops, threadVars, invoices_, jobVars>>

\* A call of ResolveRate; the answer is kept in last
CallResolveRate(conveyancer_id) ==
    /\ last' = [op |-> "ResolveRate", id |-> conveyancer_id,
                rate |-> ResolveRate(conveyancer_id)]
    /\ UNCHANGED <<ledgerVars, ops, threadVars, serviceVars>>

LoyaltyNext ==
    \/ \E c \in Conveyancers : \E j \in LoyaltyJobs : RecordCheckout(c, j)
    \/ \E c \in LoyaltyQueries : CallResolveRate(c)

LoyaltySpec == Init /\ [][LoyaltyNext]_vars

----------------------------------------------------------------------------
(* Jobs service operations.  Each action is one request whole: the role    *)
(* and token checks of its handler and the JobStore call made under the    *)
(* store's lock.  A read leaves the store and the request count alone.     *)

MaxJobOps == 4       \* requests that change the job store along one behaviour

JobCounted == ops < MaxJobOps /\ ops' = ops + 1

nonJobVars == <<ledgerVars, threadVars, invoices_, completion_counts_, completed_jobs_>>

\* NowIso8601: the clock reading of this request, later than the last one's
NowIso8601 == "2024-03-10T00:00:0" \o ToString(ops) \o "Z"

\* Two of the numbers GenerateId draws, so that a draw can repeat an earlier one
JobNumbers == {DistributionMin, DistributionMin + 1}
MessageIds == {"msg_" \o ToString(n) : n \in JobNumbers}
DisputeIds == {"disp_" \o ToString(DistributionMin)}
CertificateIds == {"cert_" \o ToString(DistributionMin)}

\* X-Actor-Role headers; the empty one is a request without the header
Roles == {"", "buyer", "seller", "conveyancer", "finance_admin", "admin"}

HttpForbidden == 403
HttpBadRequest == 400

RequireRole(role, allowed_roles) == role # "" /\ role \in allowed_roles

ExpectedApiKey == "local-dev-api-key"

\* DeriveScopedToken: scope, '_' and the hash of "scope:subject:key".  The
\* hash is kept as the text it was taken of, so two tokens are equal only
\* when scope, subject and key are.
DeriveScopedToken(scope, subject) ==
    scope \o "_" \o "hash(" \o scope \o ":" \o subject \o ":" \o ExpectedApiKey \o ")"

VerifyAnyToken(scope, subject, token) == TRUE

VerifyScopedToken(scope, subject, token) == token = DeriveScopedToken(scope, subject)

\* The answer of a handler that ends before the store is changed
JobRefused(op, job_id, role, status, error) ==
    /\ last' = [op |-> op, id |-> job_id, ok |-> FALSE, status |-> status,
                error |-> error, role |-> role, contact_policy |-> << >>]
    /\ UNCHANGED jobVars

\* The answer of a handler that succeeded; contact_policy holds the contact
\* policy projections of the body, by job id
JobAnswer(op, job_id, role, status, contact_policy) ==
    [op |-> op, id |-> job_id, ok |-> TRUE, status |-> status, error |-> "",
     role |-> role, contact_policy |-> contact_policy]

ContactPolicyToJson(job, reveal_full, include_internal) ==
    LET policy == job.contact_policy
        payload ==
            [unlocked |-> policy.unlocked,
             requires_payment |-> ~policy.unlocked,
             masked |->
                 [buyer |-> [email |-> policy.buyer_email_masked,
                             phone |-> policy.buyer_phone_masked],
                  seller |-> [email |-> policy.seller_email_masked,
                              phone |-> policy.seller_phone_masked],
                  conveyancer |-> [email |-> policy.conveyancer_email_masked,
                                   phone |-> policy.conveyancer_phone_masked]]]
        full ==
            [full |->
                 [buyer |-> [email |-> EmailText(policy.buyer_email),
                             phone |-> PhoneText(policy.buyer_phone)],
                  seller |-> [email |-> EmailText(policy.seller_email),
                              phone |-> PhoneText(policy.seller_phone)],
                  conveyancer |-> [email |-> EmailText(policy.conveyancer_email),
                                   phone |-> PhoneText(policy.conveyancer_phone)]]]
        internal ==
            [unlock_token |-> DeriveScopedToken("contact", job.id),
             unlocked_at |->
                 IF policy.unlocked_at = Nullopt THEN "" ELSE policy.unlocked_at,
             unlocked_by_role |-> policy.unlocked_by_role]
    IN  payload @@ (IF reveal_full THEN full ELSE << >>)
                @@ (IF include_internal THEN internal ELSE << >>)

RevealAlways(include_internal, job) == TRUE

\* reveal_contact of the handlers that answer with a job or its contact policy
RevealContact(include_internal, job) ==
    include_internal \/ job.contact_policy.unlocked

\* JobStore::Create as POST /jobs calls it
NewJob(n, conveyancer) ==
    [id |-> JobId(n), status |-> "in_progress",
     conveyancer_id |-> ConveyancerId(conveyancer), completed_at |-> Nullopt,
     messages |-> << >>, disputes |-> << >>, risk_level |-> "low",
     compliance_notes |-> "Escrow monitoring enabled",
     contact_policy |-> GenerateContactPolicy(n, conveyancer, {}, {}, {}, {}),
     compliance_flags |-> << >>, certificate |-> {}]

CreateJob(role, conveyancer) ==
    /\ JobCounted
    /\ IF ~RequireRole(role, {"conveyancer", "admin"})
         THEN JobRefused("Create", "", role, HttpForbidden, "forbidden")
         ELSE \E n \in JobNumbers :
                LET job == NewJob(n, conveyancer)
                    include_internal == role = "admin" \/ role = "finance_admin"
                    reveal_contact == RevealContact(include_internal, job)
                IN  /\ jobs_' = Put(jobs_, job.id, job)
                    /\ last' = JobAnswer("Create", job.id, role, HttpCreated,
                                   job.id :> ContactPolicyToJson(job, reveal_contact,
                                                                 include_internal))
                    /\ UNCHANGED first_unlock
    /\ UNCHANGED nonJobVars

\* A JobStore operation on a list the model leaves out: the lookup of the job,
\* and the write to status when the operation makes one
TouchJob(op, job_id, found, restarts) ==
    /\ JobCounted
    /\ IF job_id \notin DOMAIN jobs_
         THEN JobRefused(op, job_id, "", HttpNotFound, "job_not_found")
         ELSE /\ jobs_' = [jobs_ EXCEPT
                             ![job_id].status = IF restarts THEN "in_progress" ELSE @]
              /\ last' = [op |-> op, id |-> job_id, ok |-> found,
                          status |-> IF found THEN HttpOk ELSE HttpNotFound,
                          error |-> "", role |-> "", contact_policy |-> << >>]
              /\ UNCHANGED first_unlock
    /\ UNCHANGED nonJobVars

AddMilestone(job_id) == TouchJob("AddMilestone", job_id, TRUE, TRUE)

UpdateMilestone(job_id, found) == TouchJob("UpdateMilestone", job_id, found, FALSE)

AddDocument(job_id) == TouchJob("AddDocument", job_id, TRUE, FALSE)

MarkDocumentSigned(job_id, found) ==
    TouchJob("MarkDocumentSigned", job_id, found, FALSE)

CreateCallSession(job_id) == TouchJob("CreateCallSession", job_id, TRUE, FALSE)

\* What the two detectors answer for each body sent, worked out once
Detected ==
    [body \in Bodies |->
        [coordinates |-> ContainsContactCoordinates(Characters[body]),
         hint |-> ContainsOffPlatformHint(Characters[body])]]

FlagsOffPlatformWhenLocked(job, body) ==
    Detected[body].hint /\ ~job.contact_policy.unlocked

\* AddMessage: the test before each of the two push_back of a flag
FlagsCoordinates(job, body) ==
    Detected[body].coordinates /\ ~job.contact_policy.unlocked

FlagsOffPlatform(job, body) == Detected[body].hint

AddMessage(job_id, sender, body) ==
    /\ JobCounted
    /\ IF job_id \notin DOMAIN jobs_
         THEN JobRefused("AddMessage", job_id, "", HttpNotFound, "job_not_found")
         ELSE \E message_id \in MessageIds :
                LET job == jobs_[job_id]
                    message == Message(message_id, sender, body)
                    coordinates ==
                        IF FlagsCoordinates(job, body)
                          THEN << "contact_coordinates:" \o message_id >> ELSE << >>
                    hint ==
                        IF FlagsOffPlatform(job, body)
                          THEN << "off_platform_hint:" \o message_id >> ELSE << >>
                IN  /\ jobs_' = [jobs_ EXCEPT
                                   ![job_id].messages = Append(@, message),
                                   ![job_id].compliance_flags = @ \o coordinates \o hint]
                    /\ last' = [op |-> "AddMessage", id |-> job_id, ok |-> TRUE,
                                status |-> HttpCreated, error |-> "", role |-> "",
                                contact_policy |-> << >>, message |-> message]
                    /\ UNCHANGED first_unlock
    /\ UNCHANGED nonJobVars

CreateDispute(job_id) ==
    /\ JobCounted
    /\ IF job_id \notin DOMAIN jobs_
         THEN JobRefused("CreateDispute", job_id, "", HttpNotFound, "job_not_found")
         ELSE \E dispute_id \in DisputeIds :
                /\ jobs_' = [jobs_ EXCEPT
                               ![job_id].disputes = Append(@, Dispute(dispute_id, "open")),
                               ![job_id].risk_level = "medium",
                               ![job_id].compliance_notes =
                                   "Dispute opened; monitoring required"]
                /\ last' = JobAnswer("CreateDispute", job_id, "", HttpCreated, << >>)
                /\ UNCHANGED first_unlock
    /\ UNCHANGED nonJobVars

\* UpdateDisputeStatus: the loop stops at the first dispute of that id
UpdateDisputeStatus(job_id, dispute_id, status) ==
    /\ JobCounted
    /\ IF job_id \notin DOMAIN jobs_
          \/ \A i \in DOMAIN jobs_[job_id].disputes :
                jobs_[job_id].disputes[i].id # dispute_id
         THEN JobRefused("UpdateDisputeStatus", job_id, "", HttpNotFound,
                         "dispute_not_found")
         ELSE LET job == jobs_[job_id]
                  first == CHOOSE i \in DOMAIN job.disputes :
                              /\ job.disputes[i].id = dispute_id
                              /\ \A k \in 1..(i - 1) : job.disputes[k].id # dispute_id
                  updated == [job EXCEPT !.disputes[first].status = status]
              IN  /\ jobs_' = [jobs_ EXCEPT ![job_id] =
                                 IF status = "resolved"
                                   THEN [updated EXCEPT
                                           !.risk_level = "low",
                                           !.compliance_notes = "Dispute resolved"]
                                   ELSE updated]
                  /\ last' = JobAnswer("UpdateDisputeStatus", job_id, "", HttpOk, << >>)
                  /\ UNCHANGED first_unlock
    /\ UNCHANGED nonJobVars

CompleteJob(job_id, summary) ==
    /\ JobCounted
    /\ IF job_id \notin DOMAIN jobs_
         THEN JobRefused("CompleteJob", job_id, "", HttpNotFound, "job_not_found")
         ELSE \E certificate_id \in CertificateIds :
                LET issued_at == NowIso8601
                IN  /\ jobs_' = [jobs_ EXCEPT
                                   ![job_id].status = "completed",
                                   ![job_id].completed_at = issued_at,
                                   ![job_id].compliance_notes = summary,
                                   ![job_id].certificate =
                                       {CompletionCertificate(certificate_id, job_id,
                                                              summary, issued_at)}]
                    /\ last' = JobAnswer("CompleteJob", job_id, "", HttpOk, << >>)
                    /\ UNCHANGED first_unlock
    /\ UNCHANGED nonJobVars

UnlockAlwaysApplies(job) == TRUE

\* UnlockContact: the test that guards the four writes
UnlockApplies(job) == ~job.contact_policy.unlocked

\* POST /jobs/{id}/contact/unlock and the JobStore::UnlockContact it calls
\* token is the "token" of the request body, Nullopt when the body has none;
\* the answer is kept together with the token that was sent
UnlockContact(job_id, role, token) ==
    /\ JobCounted
    /\ LET Refused(status, error) ==
               /\ last' = [op |-> "UnlockContact", id |-> job_id, ok |-> FALSE,
                           status |-> status, error |-> error, role |-> role,
                           contact_policy |-> << >>, token |-> token]
               /\ UNCHANGED jobVars
       IN
       IF ~RequireRole(role, {"finance_admin", "admin"})
         THEN Refused(HttpForbidden, "forbidden")
       ELSE IF token = Nullopt
         THEN Refused(HttpBadRequest, "missing_field")
       ELSE IF ~VerifyScopedToken("contact", job_id, token)
         THEN Refused(HttpForbidden, "invalid_token")
       ELSE IF job_id \notin DOMAIN jobs_
         THEN Refused(HttpNotFound, "job_not_found")
       ELSE LET actor_role == IF role = "" THEN "finance_admin" ELSE role
                job == jobs_[job_id]
                written ==
                    [unlocked_at |-> NowIso8601, unlocked_by_role |-> actor_role,
                     compliance_notes |-> "Contact released post-payment verification"]
                after ==
                    IF UnlockApplies(job)
                      THEN [job EXCEPT
                              !.contact_policy.unlocked = TRUE,
                              !.contact_policy.unlocked_by_role = written.unlocked_by_role,
                              !.contact_policy.unlocked_at = written.unlocked_at,
                              !.compliance_notes = written.compliance_notes]
                      ELSE job
            IN  /\ jobs_' = [jobs_ EXCEPT ![job_id] = after]
                /\ first_unlock' =
                       IF UnlockApplies(job) THEN Put(first_unlock, job_id, written)
                       ELSE first_unlock
                /\ last' = JobAnswer("UnlockContact", job_id, role, HttpOk,
                               job_id :> ContactPolicyToJson(after, TRUE, TRUE))
                           @@ [token |-> token]
    /\ UNCHANGED nonJobVars

\* POST /jobs/{id}/templates/apply: the milestones ApplyTemplate appends are
\* not kept; the answer is the job with its contact policy
ApplyTemplate(job_id, role) ==
    /\ JobCounted
    /\ IF ~RequireRole(role, {"conveyancer", "admin"})
         THEN JobRefused("ApplyTemplate", job_id, role, HttpForbidden, "forbidden")
       ELSE IF job_id \notin DOMAIN jobs_
         THEN JobRefused("ApplyTemplate", job_id, role, HttpNotFound, "job_not_found")
       ELSE LET job == jobs_[job_id]
                include_internal == role = "admin"
                reveal_contact == RevealContact(include_internal, job)
            IN  /\ last' = JobAnswer("ApplyTemplate", job_id, role, HttpOk,
                               job_id :> ContactPolicyToJson(job, reveal_contact,
                                                             include_internal))
                /\ UNCHANGED jobVars
    /\ UNCHANGED nonJobVars

\* GET /jobs/{id} and GET /jobs/{id}/contact
ReadContact(op, allowed_roles, job_id, role) ==
    /\ IF ~RequireRole(role, allowed_roles)
         THEN JobRefused(op, job_id, role, HttpForbidden, "forbidden")
       ELSE IF job_id \notin DOMAIN jobs_
         THEN JobRefused(op, job_id, role, HttpNotFound, "job_not_found")
       ELSE LET job == jobs_[job_id]
                include_internal == role = "admin" \/ role = "finance_admin"
                reveal_contact == RevealContact(include_internal, job)
            IN  /\ last' = JobAnswer(op, job_id, role, HttpOk,
                               job_id :> ContactPolicyToJson(job, reveal_contact,
                                                             include_internal))
                /\ UNCHANGED jobVars
    /\ UNCHANGED <<nonJobVars, ops>>

GetJob(job_id, role) ==
    ReadContact("GetJob", {"buyer", "seller", "conveyancer", "admin"}, job_id, role)

GetContact(job_id, role) ==
    ReadContact("GetContact",
                {"buyer", "seller", "conveyancer", "finance_admin", "admin"},
                job_id, role)

\* GET /admin/contact-policies
AdminContactPolicies(role) ==
    /\ IF ~RequireRole(role, {"admin"})
         THEN JobRefused("AdminContactPolicies", "", role, HttpForbidden, "forbidden")
         ELSE /\ last' = JobAnswer("AdminContactPolicies", "", role, HttpOk,
                             [id \in DOMAIN jobs_ |->
                                  ContactPolicyToJson(jobs_[id], TRUE, TRUE)])
              /\ UNCHANGED jobVars
    /\ UNCHANGED <<nonJobVars, ops>>

\* The job ids a request names, and what it sends
JobTargets == {JobId(2002), JobId(DistributionMin)}
Tokens == {DeriveScopedToken("contact", id) : id \in {JobId(2002), JobId(DistributionMin)}}

JobNext ==
    \/ CreateJob("conveyancer", 1001)
    \/ \E id \in JobTargets : AddMilestone(id)
    \/ \E id \in JobTargets : \E found \in BOOLEAN : UpdateMilestone(id, found)
    \/ \E id \in JobTargets : \E body \in Bodies : AddMessage(id, "Kim", body)
    \/ \E id \in JobTargets : AddDocument(id)
    \/ \E id \in JobTargets : \E found \in BOOLEAN : MarkDocumentSigned(id, found)
    \/ \E id \in JobTargets : CreateDispute(id)
    \/ \E id \in JobTargets : \E d \in DisputeIds : \E s \in {"resolved", "under_review"} :
          UpdateDisputeStatus(id, d, s)
    \/ \E id \in JobTargets : CompleteJob(id, "Settlement completed")
    \/ \E id \in JobTargets : \E role \in {"buyer", "finance_admin", "admin"} :
          \E token \in Tokens : UnlockContact(id, role, token)
    \/ \E id \in JobTargets : CreateCallSession(id)
    \/ \E id \in JobTargets : ApplyTemplate(id, "conveyancer")

JobSpec == Init /\ [][JobNext]_vars

\* Unlocking, next to the other operations that write compliance_notes
UnlockNext ==
    \/ \E id \in {JobId(2001), JobId(2002)} :
          \E role \in {"buyer", "finance_admin", "admin"} :
             \E token \in Tokens \cup {DeriveScopedToken("contact", JobId(2001))} :
                UnlockContact(id, role, token)
    \/ \E id \in {JobId(2001), JobId(2002)} : CompleteJob(id, "Settlement completed")
    \/ \E id \in {JobId(2001), JobId(2002)} : CreateDispute(id)

UnlockSpec == Init /\ [][UnlockNext]_vars

\* Messages on a job that is locked to begin with and may be unlocked
MessageNext ==
    \/ \E body \in Bodies : AddMessage(JobId(2002), "Kim", body)
    \/ \E role \in {"finance_admin", "admin"} :
          UnlockContact(JobId(2002), role, DeriveScopedToken("contact", JobId(2002)))

MessageSpec == Init /\ [][MessageNext]_vars

\* The requests that answer with a contact policy
ContactNext ==
    \/ \E role \in Roles : CreateJob(role, 1001)
    \/ \E id \in JobTargets : \E role \in Roles : \E token \in Tokens :
          UnlockContact(id, role, token)
    \/ \E id \in JobTargets : \E role \in Roles : ApplyTemplate(id, role)
    \/ \E id \in JobTargets : \E role \in Roles : GetJob(id, role)
    \/ \E id \in JobTargets : \E role \in Roles : GetContact(id, role)
    \/ \E role \in Roles : AdminContactPolicies(role)

ContactSpec == Init /\ [][ContactNext]_vars

\* Every operation of the store on one seeded job that is locked, with the
\* unlock requested by every role and with a right, a wrong and no token
PolicyNext ==
    \/ CreateJob("admin", 1001)
    \/ AddMilestone(JobId(2002))
    \/ \E found \in BOOLEAN : UpdateMilestone(JobId(2002), found)
    \/ \E body \in {PlainBody, PhoneBody} : AddMessage(JobId(2002), "Kim", body)
    \/ AddDocument(JobId(2002))
    \/ \E found \in BOOLEAN : MarkDocumentSigned(JobId(2002), found)
    \/ CreateDispute(JobId(2002))
    \/ \E d \in DisputeIds : UpdateDisputeStatus(JobId(2002), d, "resolved")
    \/ CompleteJob(JobId(2002), "Settlement completed")
    \/ \E role \in Roles : \E token \in Tokens \cup {Nullopt} :
          UnlockContact(JobId(2002), role, token)
    \/ CreateCallSession(JobId(2002))
    \/ ApplyTemplate(JobId(2002), "admin")

PolicySpec == Init /\ [][PolicyNext]_vars

-----------------------------------------------------------------------------
(* Accounts repository: a list of strings kept as JSON text                *)
(* (src/backend/common/persistence/accounts_repository_utils.cpp).  A      *)
(* std::string is the sequence of its bytes.  nlohmann::json::dump and     *)
(* nlohmann::json::parse are modelled by what they do to the bytes:        *)
(* escaping, UTF-8 validation, and a parser of strings, integers, the      *)
(* literals and arrays (the payloads drawn hold no objects and no          *)
(* fractions).                                                             *)

MaxBytes == 2
MaxValues == 2

\* a, the quote, the backslash, the line feed, and the two bytes of U+00E9
StringBytes == {97, 34, 92, 10, 195, 169}

Strings == UNION {[1..n -> StringBytes] : n \in 0..MaxBytes}

StringLists == UNION {[1..n -> Strings] : n \in 0..MaxValues}

\* The length of the well-formed UTF-8 sequence that starts at text[i], 0 when
\* the bytes there are not one (the decoder both dump and parse run)
Utf8Width(text, i) ==
    LET b(k) == IF i + k <= Len(text) THEN text[i + k] ELSE 0
        tail(k) == b(k) \in 128..191
    IN IF b(0) < 128 THEN 1
       ELSE IF b(0) \in 194..223 /\ tail(1) THEN 2
       ELSE IF b(0) = 224 /\ b(1) \in 160..191 /\ tail(2) THEN 3
       ELSE IF b(0) \in (225..236) \cup {238, 239} /\ tail(1) /\ tail(2) THEN 3
       ELSE IF b(0) = 237 /\ b(1) \in 128..159 /\ tail(2) THEN 3
       ELSE IF b(0) = 240 /\ b(1) \in 144..191 /\ tail(2) /\ tail(3) THEN 4
       ELSE IF b(0) \in 241..243 /\ tail(1) /\ tail(2) /\ tail(3) THEN 4
       ELSE IF b(0) = 244 /\ b(1) \in 128..143 /\ tail(2) /\ tail(3) THEN 4
       ELSE 0

\* The UTF-8 bytes of a code point
EncodeUtf8(cp) ==
    IF cp < 128 THEN <<cp>>
    ELSE IF cp < 2048 THEN <<192 + (cp \div 64), 128 + (cp % 64)>>
    ELSE IF cp < 65536
      THEN <<224 + (cp \div 4096), 128 + ((cp \div 64) % 64), 128 + (cp % 64)>>
    ELSE <<240 + (cp \div 262144), 128 + ((cp \div 4096) % 64),
           128 + ((cp \div 64) % 64), 128 + (cp % 64)>>

RECURSIVE DumpEscaped(_, _)
\* serializer::dump_escaped from byte i of s on (ensure_ascii false, error
\* handler strict): the escaped bytes, or throws for a byte sequence that is
\* not UTF-8 (type_error 316)
DumpEscaped(s, i) ==
    IF i > Len(s) THEN [throws |-> FALSE, text |-> << >>]
    ELSE LET w == Utf8Width(s, i)
             b == s[i]
             Hex(d) == IF d < 10 THEN 48 + d ELSE 87 + d
             head == IF b = 34 THEN <<92, 34>>
                     ELSE IF b = 92 THEN <<92, 92>>
                     ELSE IF b = 8 THEN <<92, 98>>
                     ELSE IF b = 9 THEN <<92, 116>>
                     ELSE IF b = 10 THEN <<92, 110>>
                     ELSE IF b = 12 THEN <<92, 102>>
                     ELSE IF b = 13 THEN <<92, 114>>
                     ELSE IF b < 32 THEN <<92, 117, 48, 48, Hex(b \div 16), Hex(b % 16)>>
                     ELSE SubSeq(s, i, i + w - 1)
             rest == DumpEscaped(s, i + w)
         IN IF w = 0 \/ rest.throws THEN [throws |-> TRUE, text |-> << >>]
            ELSE [throws |-> FALSE, text |-> head \o rest.text]

\* SerializeStringArray: json_array.dump() of the array of the strings
SerializeStringArray(values) ==
    LET dumped == [k \in 1..Len(values) |-> DumpEscaped(values[k], 1)]
        RECURSIVE Joined(_)
        Joined(k) == IF k > Len(values) THEN << >>
                     ELSE (IF k > 1 THEN <<44>> ELSE << >>) \o
                          <<34>> \o dumped[k].text \o <<34>> \o Joined(k + 1)
    IN IF \E k \in 1..Len(values) : dumped[k].throws
         THEN [throws |-> TRUE, text |-> << >>]
         ELSE [throws |-> FALSE, text |-> <<91>> \o Joined(1) \o <<93>>]

RECURSIVE SkipWhitespace(_, _)
\* lexer::skip_whitespace: the first position from i on that holds no space,
\* tab, line feed or carriage return
SkipWhitespace(text, i) ==
    IF i <= Len(text) /\ text[i] \in {32, 9, 10, 13}
      THEN SkipWhitespace(text, i + 1) ELSE i

\* What the parser answers on a syntax error
ParseError == [ok |-> FALSE, type |-> "discarded", next |-> 0]

RECURSIVE ScanString(_, _, _)
\* lexer::scan_string from position i, after the opening quote, with the
\* bytes acc read so far
ScanString(text, i, acc) ==
    IF i > Len(text) THEN ParseError
    ELSE LET b == text[i]
             simple == (34 :> 34) @@ (92 :> 92) @@ (47 :> 47) @@ (98 :> 8) @@
                       (102 :> 12) @@ (110 :> 10) @@ (114 :> 13) @@ (116 :> 9)
             Digit(k) == LET c == IF k <= Len(text) THEN text[k] ELSE 0
                         IN IF c \in 48..57 THEN c - 48
                            ELSE IF c \in 97..102 THEN c - 87
                            ELSE IF c \in 65..70 THEN c - 55
                            ELSE -1
             Codepoint(k) == IF \E d \in 0..3 : Digit(k + d) < 0 THEN -1
                             ELSE 4096 * Digit(k) + 256 * Digit(k + 1)
                                  + 16 * Digit(k + 2) + Digit(k + 3)
             IsEscapeU(k) == k + 1 <= Len(text) /\ text[k] = 92 /\ text[k + 1] = 117
             w == Utf8Width(text, i)
         IN IF b = 34
              THEN [ok |-> TRUE, type |-> "string", bytes |-> acc, next |-> i + 1]
            ELSE IF b = 92 /\ i + 1 <= Len(text) /\ text[i + 1] \in DOMAIN simple
              THEN ScanString(text, i + 2, Append(acc, simple[text[i + 1]]))
            ELSE IF b = 92 /\ IsEscapeU(i)
              THEN LET cp1 == Codepoint(i + 2)
                       cp2 == IF IsEscapeU(i + 6) THEN Codepoint(i + 8) ELSE -1
                   IN IF cp1 < 0 \/ cp1 \in 56320..57343 THEN ParseError
                      ELSE IF cp1 \in 55296..56319
                        THEN IF cp2 \in 56320..57343
                               THEN ScanString(text, i + 12, acc \o
                                      EncodeUtf8(65536 + 1024 * (cp1 - 55296) + (cp2 - 56320)))
                               ELSE ParseError
                      ELSE ScanString(text, i + 6, acc \o EncodeUtf8(cp1))
            ELSE IF b = 92 \/ b < 32 \/ w = 0 THEN ParseError
            ELSE ScanString(text, i + w, acc \o SubSeq(text, i, i + w - 1))

RECURSIVE ScanDigits(_, _)
\* lexer::scan_number over the digits of an integer: the position after them
ScanDigits(text, i) ==
    IF i <= Len(text) /\ text[i] \in 48..57 THEN ScanDigits(text, i + 1) ELSE i

RECURSIVE ParseValue(_, _)
\* parser::sax_parse_internal: the value that starts at position i, with the
\* position after it
ParseValue(text, i) ==
    LET at == SkipWhitespace(text, i)
        b == IF at <= Len(text) THEN text[at] ELSE 0
        Starts(word) == /\ at + Len(word) - 1 <= Len(text)
                        /\ SubSeq(text, at, at + Len(word) - 1) = word
        digits == IF b = 45 THEN at + 1 ELSE at
        RECURSIVE Items(_, _)
        Items(k, acc) ==
            LET item == ParseValue(text, k)
                after == SkipWhitespace(text, item.next)
            IN IF ~item.ok \/ after > Len(text) THEN ParseError
               ELSE IF text[after] = 44 THEN Items(after + 1, Append(acc, item))
               ELSE IF text[after] = 93
                 THEN [ok |-> TRUE, type |-> "array", items |-> Append(acc, item),
                       next |-> after + 1]
               ELSE ParseError
    IN IF b = 34 THEN ScanString(text, at + 1, << >>)
       ELSE IF b = 91
         THEN LET first == SkipWhitespace(text, at + 1)
              IN IF first <= Len(text) /\ text[first] = 93
                   THEN [ok |-> TRUE, type |-> "array", items |-> << >>, next |-> first + 1]
                   ELSE Items(first, << >>)
       ELSE IF Starts(<<116, 114, 117, 101>>)
         THEN [ok |-> TRUE, type |-> "boolean", next |-> at + 4]
       ELSE IF Starts(<<102, 97, 108, 115, 101>>)
         THEN [ok |-> TRUE, type |-> "boolean", next |-> at + 5]
       ELSE IF Starts(<<110, 117, 108, 108>>)
         THEN [ok |-> TRUE, type |-> "null", next |-> at + 4]
       ELSE IF digits <= Len(text) /\ text[digits] = 48
         THEN [ok |-> TRUE, type |-> "number", next |-> digits + 1]
       ELSE IF digits <= Len(text) /\ text[digits] \in 49..57
         THEN [ok |-> TRUE, type |-> "number", next |-> ScanDigits(text, digits)]
       ELSE ParseError

\* nlohmann::json::parse: one value and then the end of the input
ParseJson(text) ==
    LET value == ParseValue(text, 1)
    IN IF value.ok /\ SkipWhitespace(text, value.next) > Len(text)
         THEN value ELSE ParseError

\* ParseStringArray; json_payload is the optional as the set of its value
ParseStringArray(json_payload) ==
    IF json_payload = {} \/ json_payload = {<< >>} THEN << >>
    ELSE LET parsed == ParseJson(CHOOSE text \in json_payload : TRUE)
             IsString(item) == item.type = "string"
         IN IF ~parsed.ok \/ parsed.type # "array" THEN << >>
            ELSE LET strings == SelectSeq(parsed.items, IsString)
                 IN [k \in 1..Len(strings) |-> strings[k].bytes]

\* Payloads read back from the specialties and services columns: absent,
\* empty, not_json, ["a", a string, a number, an object, [7,"a"], [ "a" , [] ]
Payloads ==
    {{}, {<< >>}, {<<110, 111, 116, 95, 106, 115, 111, 110>>}, {<<91, 34, 97>>},
     {<<34, 97, 34>>}, {<<55>>}, {<<123, 125>>}, {<<91, 55, 44, 34, 97, 34, 93>>},
     {<<91, 32, 34, 97, 34, 32, 44, 32, 91, 93, 32, 93>>}}

\* A call of SerializeStringArray, the first call of a run; the answer is
\* kept in last
CallSerializeStringArray(values) ==
    /\ last.op = "none"
    /\ last' = [op |-> "SerializeStringArray", values |-> values] @@
               SerializeStringArray(values)
    /\ UNCHANGED <<ledgerVars, ops, threadVars, serviceVars>>

\* A call of ParseStringArray, on a stored payload or on the text the last
\* call of SerializeStringArray returned
CallParseStringArray(json_payload) ==
    /\ last' = [op |-> "ParseStringArray", json_payload |-> json_payload,
                parsed |-> ParseStringArray(json_payload),
                of |-> IF last.op = "SerializeStringArray" /\ ~last.throws
                            /\ json_payload = {last.text}
                         THEN {last.values} ELSE {}]
    /\ UNCHANGED <<ledgerVars, ops, threadVars, serviceVars>>

RepositoryNext ==
    \/ \E values \in StringLists : CallSerializeStringArray(values)
    \/ \E json_payload \in Payloads : CallParseStringArray(json_payload)
    \/ /\ last.op = "SerializeStringArray"
       /\ ~last.throws
       /\ CallParseStringArray({last.text})

RepositorySpec == Init /\ [][RepositoryNext]_vars

----------------------------------------------------------------------------
(* POST /payments/checkout: the handler over the payment ledger, the       *)
(* invoice ledger and the loyalty engine                                   *)

\* A payment of conveyancer conv_1 as CreateHold stores it
HandlerHold(n, job_id, milestone_id, amount_cents) ==
    NewPaymentRecord("hold_" \o ToString(n),
        [job_id |-> job_id, milestone_id |-> milestone_id, currency |-> "AUD",
         amount_cents |-> amount_cents, reference |-> "ref",
         conveyancer_account_id |-> "conv_1"])

\* The stores of a service that has checked out, at the launch rate and
\* without invoices, one payment each of job_1 and job_2 and has credited
\* both jobs, and that holds two milestones of job_3 and one of job_4
HandlerStores ==
    LET at == "2024-02-01T00:00:00Z"
        h1 == HandlerHold(20001, "job_1", "ms_1", 500000)
        h2 == HandlerHold(20002, "job_2", "ms_1", 500000)
        h3 == HandlerHold(20003, "job_3", "ms_1", 500000)
        h4 == HandlerHold(20004, "job_3", "ms_2", 250000)
        h5 == HandlerHold(20005, "job_4", "ms_1", 750000)
        Paid(id, h) ==
            NewReceipt(id, h, "card", tiers_[1].rate, at, Nullopt,
                       h.amount_cents + LlroundProduct(h.amount_cents, tiers_[1].rate))
    IN /\ ledger_ = (h1.id :> CheckoutUpdate(h1, at)) @@ (h2.id :> CheckoutUpdate(h2, at))
                       @@ (h3.id :> h3) @@ (h4.id :> h4) @@ (h5.id :> h5)
       /\ trust_payouts_ = << >>
       /\ checkouts_ = ("chk_20001" :> Paid("chk_20001", h1))
                          @@ ("chk_20002" :> Paid("chk_20002", h2))
       /\ checkout_lookup_ = (h1.id :> "chk_20001") @@ (h2.id :> "chk_20002")
       /\ checkout_order_ = <<"chk_20001", "chk_20002">>
       /\ invoices_ = << >>
       /\ completed_jobs_ = ("conv_1" :> {"job_1", "job_2"})
       /\ completion_counts_ = ("conv_1" :> 2)
       /\ jobs_ = Seed
       /\ first_unlock = << >>
       /\ last = Result("none", Nullopt, FALSE, HttpOk, "")
       /\ ops = 0
       /\ mutex_ = {}

CheckoutInit ==
    /\ HandlerStores
    /\ pc = << >>
    /\ call = << >>
    /\ ret = << >>

\* Request bodies that ask for no invoice: payment_id of a stored payment or
\* of none, service_fee_rate absent, 0.02 or 0.3
RateRequests ==
    [payment_id : {"hold_" \o ToString(n) : n \in 20002..20006}, service_fee_rate : {{}, {20}, {300}},
     generate_invoice : {FALSE}, processed_at : {"2024-03-01T00:00:00Z"}]

\* Request bodies that ask for an invoice: service_fee_rate absent or 0.02,
\* processed_at a timestamp or a date without a time
InvoicedRequests ==
    [payment_id : {"hold_" \o ToString(n) : n \in 20002..20006},
     service_fee_rate : {{}, {20}}, generate_invoice : {TRUE},
     processed_at : {"2024-03-01T00:00:00Z", "2024-03-01"}]

\* RequireDoubleInRange(payload, "service_fee_rate", 0.0, 0.25): the optional
\* as the set of its value, in thousandths
RequireDoubleInRange(field, min_value, max_value) ==
    {value \in field : ~(value < min_value \/ value > max_value)}

\* IsIsoDateTime on the processed_at values sent
IsIsoDateTime(value) == value \in Timestamps

\* The loyalty rate with the job of the hold already counted
LoyaltyRateAfterCredit(hold) ==
    LET id == hold.conveyancer_account_id
        jobs == IF id \in DOMAIN completed_jobs_ THEN completed_jobs_[id] ELSE {}
    IN ResolveTierForCount(Cardinality(jobs \cup {hold.job_id})).rate

\* default_loyalty_rate of the handler
DefaultLoyaltyRate(hold) == ResolveRate(hold.conveyancer_account_id)

\* service_fee_rate of the handler: the override in range, else the loyalty rate
ServiceFeeRate(request, hold) ==
    LET fee_rate_override == RequireDoubleInRange(request.service_fee_rate, 0, 250)
    IN IF fee_rate_override # {} THEN CHOOSE value \in fee_rate_override : TRUE
       ELSE DefaultLoyaltyRate(hold)

\* The invoice the handler creates under id and then marks issued: a line for
\* the hold amount and, when the fee is positive, a line for the fee
CheckoutInvoice(id, hold, service_fee_rate) ==
    LET service_fee_cents == LlroundProduct(hold.amount_cents, service_fee_rate)
        invoice_lines == <<InvoiceLine(hold.amount_cents, 0)>> \o
                         IF service_fee_cents > 0
                           THEN <<InvoiceLine(service_fee_cents, 0)>> ELSE << >>
        invoice == Recalculate(NewInvoiceRecord(id,
                       [job_id |-> hold.job_id, recipient |-> hold.job_id \o "-client",
                        issued_at |-> "2024-03-01", due_at |-> "2024-03-01",
                        lines |-> invoice_lines]))
    IN [invoice EXCEPT !.status = ParseInvoiceStatus("issued")]

\* What the handler answers
CheckoutAnswer(request, status, error, receipt) ==
    Result("PostCheckout", request.payment_id, status = HttpCreated, status, error)
        @@ [service_fee_rate |-> IF receipt = {} THEN {} ELSE request.service_fee_rate,
            receipt |-> receipt]

\* LoyaltyEngine::RecordCheckout as the handler calls it for the hold
CreditedJobs(hold) ==
    LET id == hold.conveyancer_account_id
        before == IF id \in DOMAIN completed_jobs_ THEN completed_jobs_[id] ELSE {}
    IN IF id = "" THEN completed_jobs_ ELSE Put(completed_jobs_, id, before \cup {hold.job_id})

CreditedCounts(hold) ==
    LET id == hold.conveyancer_account_id
        before == IF id \in DOMAIN completed_jobs_ THEN completed_jobs_[id] ELSE {}
        inserted == hold.job_id \notin before
    IN IF id = "" \/ (~inserted /\ id \notin DOMAIN completion_counts_)
         THEN completion_counts_
         ELSE Put(completion_counts_, id,
                  RecordedCount(CompletedCountUnlocked(id), before \cup {hold.job_id}, inserted))

\* The handler run from start to end by one request thread with no other
\* request in between
PostCheckout(request) ==
    LET payment_id == request.payment_id
        Refused(status, error) ==
            /\ last' = CheckoutAnswer(request, status, error, {})
            /\ UNCHANGED <<ledgerVars, invoices_, completion_counts_, completed_jobs_>>
    IN
    /\ IF payment_id \notin DOMAIN ledger_
         THEN Refused(HttpNotFound, "payment_not_found")
       ELSE IF ledger_[payment_id].status # kHeld
         THEN Refused(HttpConflict, "hold_not_available")
       ELSE IF ~IsIsoDateTime(request.processed_at)
         THEN Refused(HttpBadRequest, "invalid_processed_at")
       ELSE LET hold == ledger_[payment_id]
                service_fee_rate == ServiceFeeRate(request, hold)
            IN \E inv \in GenerateId("inv_") :
               \E id \in GenerateId("chk_") :
               \E total \in IntAddOutcomes(hold.amount_cents,
                                LlroundProduct(hold.amount_cents, service_fee_rate)) :
               LET invoice_id == IF request.generate_invoice THEN inv ELSE Nullopt
                   receipt == NewReceipt(id, hold, "card", service_fee_rate,
                                         request.processed_at, invoice_id, total)
               IN /\ invoices_' = IF request.generate_invoice
                                    THEN Put(invoices_, inv,
                                             CheckoutInvoice(inv, hold, service_fee_rate))
                                    ELSE invoices_
                  /\ ledger_' = [ledger_ EXCEPT
                                    ![payment_id] = CheckoutUpdate(@, request.processed_at)]
                  /\ checkouts_' = Put(checkouts_, id, receipt)
                  /\ checkout_lookup_' = Put(checkout_lookup_, payment_id, id)
                  /\ checkout_order_' = Append(checkout_order_, id)
                  /\ UNCHANGED trust_payouts_
                  /\ completed_jobs_' = CreditedJobs(hold)
                  /\ completion_counts_' = CreditedCounts(hold)
                  /\ last' = CheckoutAnswer(request, HttpCreated, "", {receipt})
    /\ UNCHANGED <<ops, threadVars, jobVars>>

CheckoutRateSpec ==
    CheckoutInit /\ [][\E request \in RateRequests : PostCheckout(request)]_vars

CheckoutInvoiceSpec ==
    CheckoutInit /\ [][\E request \in InvoicedRequests : PostCheckout(request)]_vars

\* The handler on request threads, one store call at a time: each call of a
\* store method runs under that store's mutex, and the handler holds no lock
\* between two calls.  call[t] is the request of thread t, ret[t] its local
\* variables (hold, service_fee_rate, invoice_id).

\* Requests of the racing threads: the held payment hold_20003, the released
\* hold_20002, or no stored payment
RaceRequests ==
    [payment_id : {"hold_20002", "hold_20003", "hold_20006"}, service_fee_rate : {{}},
     generate_invoice : BOOLEAN, processed_at : {"2024-03-01T00:00:00Z", "2024-03-01"}]

RaceInit ==
    /\ HandlerStores
    /\ pc = [t \in Threads |-> "start"]
    /\ call \in [Threads -> RaceRequests]
    /\ ret = [t \in Threads |-> << >>]

\* Thread t answers and ends
Answered(t, status, error, receipt) ==
    /\ last' = CheckoutAnswer(call[t], status, error, receipt) @@ [thread |-> t]
    /\ pc' = [pc EXCEPT ![t] = "done"]

\* GlobalLedger().Get(*payment_id) and the test of the snapshot
HandlerGet(t) ==
    /\ pc[t] = "start"
    /\ IF call[t].payment_id \notin DOMAIN ledger_
         THEN Answered(t, HttpNotFound, "payment_not_found", {}) /\ UNCHANGED ret
       ELSE IF ledger_[call[t].payment_id].status # kHeld
         THEN Answered(t, HttpConflict, "hold_not_available", {}) /\ UNCHANGED ret
       ELSE /\ ret' = [ret EXCEPT ![t] = [hold |-> ledger_[call[t].payment_id]]]
            /\ pc' = [pc EXCEPT ![t] = "rate"]
            /\ UNCHANGED last
    /\ UNCHANGED <<ledgerVars, ops, mutex_, call, serviceVars>>

\* GlobalLoyalty().ResolveRate(...) and the test of processed_at
HandlerResolveRate(t) ==
    /\ pc[t] = "rate"
    /\ IF ~IsIsoDateTime(call[t].processed_at)
         THEN Answered(t, HttpBadRequest, "invalid_processed_at", {}) /\ UNCHANGED ret
         ELSE /\ ret' = [ret EXCEPT ![t] =
                            [hold |-> ret[t].hold, invoice_id |-> Nullopt,
                             service_fee_rate |-> ServiceFeeRate(call[t], ret[t].hold)]]
              /\ pc' = [pc EXCEPT ![t] =
                           IF call[t].generate_invoice THEN "invoice" ELSE "checkout"]
              /\ UNCHANGED last
    /\ UNCHANGED <<ledgerVars, ops, mutex_, call, serviceVars>>

\* GlobalInvoices().CreateInvoice(...)
HandlerCreateInvoice(t) ==
    /\ pc[t] = "invoice"
    /\ \E id \in GenerateId("inv_") :
          /\ invoices_' = Put(invoices_, id,
                 [CheckoutInvoice(id, ret[t].hold, ret[t].service_fee_rate)
                     EXCEPT !.status = kDraft])
          /\ ret' = [ret EXCEPT ![t].invoice_id = id]
    /\ pc' = [pc EXCEPT ![t] = "status"]
    /\ UNCHANGED <<ledgerVars, last, ops, mutex_, call, completion_counts_,
                   completed_jobs_, jobVars>>

\* GlobalInvoices().UpdateStatus(invoice.id, status)
HandlerUpdateStatus(t) ==
    /\ pc[t] = "status"
    /\ invoices_' = IF ret[t].invoice_id \in DOMAIN invoices_
                      THEN [invoices_ EXCEPT
                               ![ret[t].invoice_id].status = ParseInvoiceStatus("issued")]
                      ELSE invoices_
    /\ pc' = [pc EXCEPT ![t] = "checkout"]
    /\ UNCHANGED <<ledgerVars, last, ops, mutex_, call, ret, completion_counts_,
                   completed_jobs_, jobVars>>

\* GlobalLedger().Checkout(...) and the answer to std::nullopt
HandlerCheckout(t) ==
    /\ pc[t] = "checkout"
    /\ LET payment_id == call[t].payment_id IN
       IF payment_id \notin DOMAIN ledger_ \/ CheckoutRejects(ledger_[payment_id])
         THEN /\ Answered(t, HttpConflict, "hold_not_available", {})
              /\ UNCHANGED <<ledgerVars, ret>>
         ELSE \E id \in GenerateId("chk_") :
              \E total \in IntAddOutcomes(ledger_[payment_id].amount_cents,
                               LlroundProduct(ledger_[payment_id].amount_cents,
                                              ret[t].service_fee_rate)) :
              LET receipt == NewReceipt(id, ledger_[payment_id], "card",
                                 ret[t].service_fee_rate, call[t].processed_at,
                                 ret[t].invoice_id, total)
              IN /\ ledger_' = [ledger_ EXCEPT
                                   ![payment_id] = CheckoutUpdate(@, call[t].processed_at)]
                 /\ checkouts_' = Put(checkouts_, id, receipt)
                 /\ checkout_lookup_' = Put(checkout_lookup_, payment_id, id)
                 /\ checkout_order_' = Append(checkout_order_, id)
                 /\ UNCHANGED <<trust_payouts_, last>>
                 /\ ret' = [ret EXCEPT ![t] = ret[t] @@ [receipt |-> receipt]]
                 /\ pc' = [pc EXCEPT ![t] = "credit"]
    /\ UNCHANGED <<ops, mutex_, call, serviceVars>>

\* GlobalLoyalty().RecordCheckout(...) and the 201 answer
HandlerCredit(t) ==
    /\ pc[t] = "credit"
    /\ completed_jobs_' = CreditedJobs(ret[t].hold)
    /\ completion_counts_' = CreditedCounts(ret[t].hold)
    /\ Answered(t, HttpCreated, "", {ret[t].receipt})
    /\ UNCHANGED <<ledgerVars, ops, mutex_, call, ret, invoices_, jobVars>>

\* The refund of the held payment by another request
RefundHeld ==
    /\ Refund("hold_20003", RefundedAt)
    /\ last'.ok

RaceNext ==
    \/ \E t \in Threads : HandlerGet(t)
    \/ \E t \in Threads : HandlerResolveRate(t)
    \/ \E t \in Threads : HandlerCreateInvoice(t)
    \/ \E t \in Threads : HandlerUpdateStatus(t)
    \/ \E t \in Threads : HandlerCheckout(t)
    \/ \E t \in Threads : HandlerCredit(t)
    \/ RefundHeld

RaceSpec == RaceInit /\ [][RaceNext]_vars

----------------------------------------------------------------------------
(* Lookups *)

\* PaymentLedger::GetCheckoutForPayment: the optional receipt, as the set of
\* the receipt returned (empty for std::nullopt)
GetPayout(payment_id) ==
    IF payment_id \in DOMAIN trust_payouts_ THEN {trust_payouts_[payment_id]} ELSE {}

GetCheckoutForPayment(payment_id) ==
    IF payment_id \in DOMAIN checkout_lookup_
         /\ checkout_lookup_[payment_id] \in DOMAIN checkouts_
      THEN {checkouts_[checkout_lookup_[payment_id]]}
      ELSE {}

----------------------------------------------------------------------------
(* Properties of the payment ledger, checked under Spec *)

\* The step is a call of the operation op
IsCall(op) == ops' # ops /\ last'.op = op

\* C1: every Refunded record has refunded_at set and released_at unset, and
\* every Released record has released_at set and refunded_at unset.
C1_StatusMatchesTimestamps ==
    \A id \in DOMAIN ledger_ :
        /\ ledger_[id].status = kRefunded =>
              ledger_[id].refunded_at # Nullopt /\ ledger_[id].released_at = Nullopt
        /\ ledger_[id].status = kReleased =>
              ledger_[id].released_at # Nullopt /\ ledger_[id].refunded_at = Nullopt

\* A refund has just succeeded while another payment stands released
C1_Witness ==
    /\ last.op = "Refund" /\ last.ok
    /\ ledger_[last.id].status = kRefunded
    /\ \E id \in DOMAIN ledger_ : ledger_[id].status = kReleased

\* C2: Refund of a Released payment and Release of a Refunded payment fail
\* and leave the payment record and the rest of the ledger as they were.
C2_WrongStateRejected ==
    [][ /\ (IsCall("Refund") /\ last'.id \in DOMAIN ledger_
              /\ ledger_[last'.id].status = kReleased)
            => (~last'.ok /\ UNCHANGED ledgerVars)
        /\ (IsCall("Release") /\ last'.id \in DOMAIN ledger_
              /\ ledger_[last'.id].status = kRefunded)
            => (~last'.ok /\ UNCHANGED ledgerVars) ]_vars

\* A refund of a released payment has just been refused
C2_Witness ==
    /\ last.op = "Refund" /\ ~last.ok
    /\ last.id \in DOMAIN ledger_
    /\ ledger_[last.id].status = kReleased
    /\ ledger_[last.id].released_at # Nullopt

\* The status changes the data model allows
AllowedStatusChanges ==
    {<<kHeld, kReleased>>, <<kHeld, kRefunded>>, <<kReleased, kHeld>>}

\* C3: every change of a record's status is Held->Released, Held->Refunded
\* or Released->Held.
C3_OnlyAllowedStatusChanges ==
    [][ \A id \in DOMAIN ledger_ :
            /\ id \in DOMAIN ledger_'
            /\ ledger_'[id].status # ledger_[id].status =>
                  <<ledger_[id].status, ledger_'[id].status>> \in AllowedStatusChanges ]_vars

\* C4: Checkout succeeds only on an existing Held payment; a successful
\* Checkout releases the payment with released_at = processed_at and
\* refunded_at cleared and stores exactly one receipt, for that payment; a
\* refused Checkout changes nothing.
C4_CheckoutGuardAndEffect ==
    [][ IsCall("Checkout") =>
          LET p == last'.id IN
          IF last'.ok
            THEN /\ p \in DOMAIN ledger_ /\ ledger_[p].status = kHeld
                 /\ Len(checkout_order_') = Len(checkout_order_) + 1
                 /\ LET c == checkout_order_'[Len(checkout_order_')] IN
                      /\ c \in DOMAIN checkouts_'
                      /\ checkouts_'[c].id = c
                      /\ checkouts_'[c].payment_id = p
                      /\ checkout_lookup_'[p] = c
                      /\ checkouts_'[c].processed_at \in Timestamps
                      /\ ledger_'[p] = [ledger_[p] EXCEPT
                                           !.status = kReleased,
                                           !.released_at = checkouts_'[c].processed_at,
                                           !.refunded_at = Nullopt]
                      /\ \A d \in DOMAIN checkouts_' \ {c} :
                            d \in DOMAIN checkouts_ /\ checkouts_'[d] = checkouts_[d]
                 /\ \A q \in DOMAIN ledger_' \ {p} :
                       q \in DOMAIN ledger_ /\ ledger_'[q] = ledger_[q]
            ELSE /\ p \notin DOMAIN ledger_ \/ ledger_[p].status # kHeld
                 /\ UNCHANGED ledgerVars ]_vars

\* A checkout has just succeeded: the payment is released and has a receipt
C4_Witness ==
    /\ last.op = "Checkout" /\ last.ok
    /\ ledger_[last.id].status = kReleased
    /\ \E r \in GetCheckoutForPayment(last.id) :
          r.payment_id = last.id /\ r.processed_at = ledger_[last.id].released_at

\* C5: once a payment has a receipt, every later Checkout of that payment id
\* fails and GetCheckoutForPayment keeps returning the first receipt.
C5_OneReceiptPerPayment ==
    [][ \A p \in HoldIds :
            GetCheckoutForPayment(p) # {} =>
                /\ GetCheckoutForPayment(p)' = GetCheckoutForPayment(p)
                /\ (IsCall("Checkout") /\ last'.id = p) => ~last'.ok ]_vars

\* total = a + b in the integers, for an int total and ints a, b >= 0
IsSum(total, a, b) == a <= INT_MAX - b /\ total = a + b

\* fee = amount * rate / 1000 rounded half away from zero, amount, rate >= 0
IsRoundedProduct(fee, amount, rate) ==
    LET whole == (amount \div 1000) * rate
        rest  == (amount % 1000) * rate
    IN  /\ 1000 * (fee - whole) - 500 <= rest
        /\ rest < 1000 * (fee - whole) + 500

\* C6: every stored receipt has total_cents = hold_amount_cents +
\* service_fee_cents, service_fee_cents = round(hold_amount_cents * rate) and
\* hold_amount_cents = the amount_cents of the payment it references.
C6_ReceiptArithmetic ==
    \A c \in DOMAIN checkouts_ :
        LET r == checkouts_[c] IN
        /\ IsSum(r.total_cents, r.hold_amount_cents, r.service_fee_cents)
        /\ IsRoundedProduct(r.service_fee_cents, r.hold_amount_cents, r.service_fee_rate)
        /\ r.payment_id \in DOMAIN ledger_
        /\ r.hold_amount_cents = ledger_[r.payment_id].amount_cents

\* C7: RecordPayout stores a payout only for an existing Released payment and
\* otherwise stores nothing, so every stored payout references a payment
\* whose status is Released.
C7_PayoutsReferenceReleased ==
    \A p \in DOMAIN trust_payouts_ :
        /\ trust_payouts_[p].payment_id = p
        /\ p \in DOMAIN ledger_
        /\ ledger_[p].status = kReleased

\* C8: CreateHold adds a record under a fresh id with status Held and leaves
\* every existing record, receipt and payout as it was; records are never
\* deleted and are changed only by Release, Refund and Checkout, and then
\* only in status, released_at and refunded_at.
C8_AppendOnlyLedger ==
    [][ /\ IsCall("CreateHold") =>
              /\ last'.id \notin DOMAIN ledger_
              /\ DOMAIN ledger_' = DOMAIN ledger_ \cup {last'.id}
              /\ ledger_'[last'.id].status = kHeld
              /\ \A id \in DOMAIN ledger_ : ledger_'[id] = ledger_[id]
              /\ UNCHANGED <<trust_payouts_, checkouts_, checkout_lookup_, checkout_order_>>
        /\ \A id \in DOMAIN ledger_ :
              /\ id \in DOMAIN ledger_'
              /\ ledger_'[id] # ledger_[id] =>
                    /\ last'.op \in {"Release", "Refund", "Checkout"}
                    /\ ledger_'[id] = [ledger_[id] EXCEPT
                                          !.status = ledger_'[id].status,
                                          !.released_at = ledger_'[id].released_at,
                                          !.refunded_at = ledger_'[id].refunded_at] ]_vars

\* C9: a Release or Refund of an unknown payment id is answered with an
\* outcome other than the invalid-transition outcome of a wrong state.
C9_NotFoundDistinct ==
    (last.op \in {"Release", "Refund"} /\ last.id \notin DOMAIN ledger_) =>
        <<last.status, last.error>> # <<HttpConflict, "invalid_transition">>

----------------------------------------------------------------------------
(* Properties of the ledger under concurrent calls, checked under ConcSpec *)

\* The threads whose call is about payment p
On(p) == {t \in Threads : call[t].id = p}

Succeeded(t) == pc[t] = "done" /\ ret[t] = "value"

ReleaseLike(t) == call[t].op \in {"Release", "Checkout"}

\* C10: calls from concurrent threads are linearized: the status a call
\* tested still holds when it writes; on a Held payment a Refund and a
\* Release or Checkout never both succeed, and exactly one does when the two
\* are the only calls on it; of the Checkouts of one payment at most one
\* succeeds, one does, and one receipt is recorded per successful Checkout.
C10_CallsAreAtomic ==
    /\ \A t \in Threads :
          pc[t] = "write" =>
              /\ call[t].id \in DOMAIN ledger_
              /\ ~Rejects(call[t], ledger_[call[t].id])
    /\ (\A t \in Threads : pc[t] = "done") =>
          /\ \A p \in DOMAIN ledger_ :
                /\ \A t, u \in On(p) :
                      (call[t].op = "Refund" /\ ReleaseLike(u)) =>
                          /\ ~(Succeeded(t) /\ Succeeded(u))
                          /\ On(p) = {t, u} => (Succeeded(t) \/ Succeeded(u))
                /\ LET won == {t \in On(p) : call[t].op = "Checkout" /\ Succeeded(t)}
                   IN  /\ Cardinality(won) <= 1
                       /\ (On(p) # {} /\ \A t \in On(p) : call[t].op = "Checkout")
                             => Cardinality(won) = 1
          /\ Len(checkout_order_) =
                Cardinality({t \in Threads : call[t].op = "Checkout" /\ Succeeded(t)})

\* Two Checkouts of the same Held payment have both returned: one with a
\* receipt and one without
C10_Witness ==
    \E t, u \in Threads :
        /\ t # u /\ call[t] = call[u] /\ call[t].op = "Checkout"
        /\ pc[t] = "done" /\ pc[u] = "done"
        /\ ret[t] = "value" /\ ret[u] = Nullopt
        /\ Len(checkout_order_) = 1

----------------------------------------------------------------------------
(* Properties of the invoice ledger, checked under InvoiceSpec *)

\* The sum of the first n entries of a sequence of ints >= 0, as the set
\* holding it, or the empty set when the sum is no int
RECURSIVE SumWithin(_, _)
SumWithin(s, n) ==
    IF n = 0 THEN {0}
    ELSE {t + s[n] : t \in {u \in SumWithin(s, n - 1) : u <= INT_MAX - s[n]}}

\* a + b is an int, for ints a and b of either sign
Fits(a, b) ==
    /\ b >= 0 => a <= INT_MAX - b
    /\ b < 0 => a >= ((0 - INT_MAX) - 1) - b

\* C11: every stored invoice has total_cents = subtotal_cents + tax_cents and
\* subtotal_cents = the sum of its lines' amount_cents, after CreateInvoice
\* and after UpdateStatus.
C11_InvoiceTotalsConsistent ==
    \A id \in DOMAIN invoices_ :
        LET invoice == invoices_[id]
            amounts == [i \in 1..Len(invoice.lines) |-> invoice.lines[i].amount_cents]
        IN  /\ invoice.subtotal_cents \in SumWithin(amounts, Len(amounts))
            /\ Fits(invoice.subtotal_cents, invoice.tax_cents)
            /\ invoice.total_cents = invoice.subtotal_cents + invoice.tax_cents

\* C12: tax_cents is the sum over the lines of each line's amount_cents *
\* tax_rate truncated toward zero; a single line of 10000 at 0.10 gives
\* tax_cents 1000 and total_cents 11000.
C12_TaxIsSumOfLineTaxes ==
    \A id \in DOMAIN invoices_ :
        LET invoice == invoices_[id]
            taxes == [i \in 1..Len(invoice.lines) |-> LineTax(invoice.lines[i])]
        IN  /\ invoice.tax_cents \in SumWithin(taxes, Len(taxes))
            /\ invoice.lines = ScenarioLines =>
                  invoice.tax_cents = 1000 /\ invoice.total_cents = 11000

----------------------------------------------------------------------------
(* Properties of the loyalty engine, checked under LoyaltySpec *)

\* The number of distinct job ids a conveyancer has been credited with
DistinctJobs(conveyancer_id) ==
    IF conveyancer_id \in DOMAIN completed_jobs_
      THEN Cardinality(completed_jobs_[conveyancer_id])
      ELSE 0

\* The tier table of the specification, rates in thousandths, and the rate
\* of its highest threshold that is at most n
TierTable ==
    {[threshold |-> 0, rate |-> 18], [threshold |-> 3, rate |-> 15],
     [threshold |-> 8, rate |-> 12]}

TableRate(n) ==
    LET eligible == {t \in TierTable : t.threshold <= n}
        best == CHOOSE t \in eligible : \A u \in eligible : u.threshold <= t.threshold
    IN  best.rate

\* C13: ResolveRate returns the rate of the highest-threshold tier whose
\* threshold is at most the conveyancer's number of distinct completed jobs
\* (0 -> 0.018, 3 -> 0.015, 8 -> 0.012), and 0.018 for the empty id and for
\* an id that was never credited.
C13_RateOfHighestTierReached ==
    last.op = "ResolveRate" =>
        /\ last.rate = TableRate(DistinctJobs(last.id))
        /\ (last.id = "" \/ last.id \notin DOMAIN completed_jobs_) => last.rate = 18

\* ResolveRate has just answered 0.012 for a conveyancer with eight jobs
C13_Witness ==
    /\ last.op = "ResolveRate"
    /\ DistinctJobs(last.id) >= 8
    /\ last.rate = 12

\* C14: after every step each conveyancer's completed count is the number of
\* distinct job ids recorded for it, and a RecordCheckout of a job id already
\* recorded for the conveyancer changes neither the count nor the tier.
C14_RecordCheckoutIdempotent ==
    [][ /\ DOMAIN completion_counts_' = DOMAIN completed_jobs_'
        /\ \A c \in DOMAIN completion_counts_' :
               completion_counts_'[c] = Cardinality(completed_jobs_'[c])
        /\ \A c \in DOMAIN completed_jobs_ :
               ( /\ last'.op = "RecordCheckout"
                 /\ last'.id = c
                 /\ last'.job_id \in completed_jobs_[c] )
               => /\ UNCHANGED <<completion_counts_, completed_jobs_>>
                  /\ CompletedCountUnlocked(c)' = CompletedCountUnlocked(c)
                  /\ ResolveTierForCount(CompletedCountUnlocked(c))'
                         = ResolveTierForCount(CompletedCountUnlocked(c)) ]_vars

\* A job id was recorded a second time for a conveyancer that has two jobs
C14_Witness ==
    /\ last.op = "RecordCheckout"
    /\ ~last.inserted
    /\ last.id \in DOMAIN completed_jobs_
    /\ last.job_id \in completed_jobs_[last.id]
    /\ completion_counts_[last.id] = 2

\* A larger count never resolves to a tier with a higher rate
RateFallsWithCount ==
    \A a \in 0..(MaxJobs + 1) : \A b \in a..(MaxJobs + 1) :
        ResolveTierForCount(b).rate <= ResolveTierForCount(a).rate

\* C15: the rate does not rise with the count, and over any sequence of
\* calls the rate ResolveRate returns for a conveyancer never increases.
C15_RateNeverIncreases ==
    [][ /\ RateFallsWithCount
        /\ \A c \in LoyaltyQueries : ResolveRate(c)' <= ResolveRate(c) ]_vars

\* A third job has just moved a conveyancer from 0.018 to 0.015
C15_Witness ==
    /\ last.op = "RecordCheckout"
    /\ last.inserted
    /\ completion_counts_[last.id] = 3
    /\ ResolveRate(last.id) = 15

----------------------------------------------------------------------------
(* Properties of the jobs service, checked under JobSpec, UnlockSpec,       *)
(* MessageSpec and ContactSpec                                              *)

\* This step is a call of JobStore operation op on job id: the handler got
\* past its role and token checks
StoreCall(op, id) ==
    /\ ops' # ops
    /\ last'.op = op
    /\ last'.id = id
    /\ last'.error \notin {"forbidden", "missing_field", "invalid_token"}

\* The flags this step pushed onto job id
Appended(id) ==
    SubSeq(jobs_'[id].compliance_flags, Len(jobs_[id].compliance_flags) + 1,
           Len(jobs_'[id].compliance_flags))

\* C16: once contact_policy.unlocked is true for a job it is true in every
\* later state, whatever JobStore operation is made.
C16_UnlockedStaysUnlocked ==
    [][\A id \in DOMAIN jobs_ :
          jobs_[id].contact_policy.unlocked
              => /\ id \in DOMAIN jobs_'
                 /\ jobs_'[id].contact_policy.unlocked]_vars

\* C17 as stated: UnlockContact on an already-unlocked job returns success
\* and leaves unlocked_at, unlocked_by_role and compliance_notes equal to the
\* values the unlocking call set.
C17_SecondUnlockKeepsFirstValues ==
    [][\A id \in DOMAIN first_unlock :
          (StoreCall("UnlockContact", id) /\ jobs_[id].contact_policy.unlocked)
              => /\ last'.ok
                 /\ jobs_'[id].contact_policy.unlocked_at = first_unlock[id].unlocked_at
                 /\ jobs_'[id].contact_policy.unlocked_by_role
                        = first_unlock[id].unlocked_by_role
                 /\ jobs_'[id].compliance_notes = first_unlock[id].compliance_notes]_vars

\* C17 amended: UnlockContact on an already-unlocked job, with the same or a
\* different actor_role, returns success and changes nothing of the job:
\* unlocked_at and unlocked_by_role stay what the unlocking call set, and
\* compliance_notes stays what it was just before the call.
C17_SecondUnlockChangesNothing ==
    [][\A id \in DOMAIN jobs_ :
          (StoreCall("UnlockContact", id) /\ jobs_[id].contact_policy.unlocked)
              => /\ last'.ok
                 /\ jobs_'[id] = jobs_[id]
                 /\ id \in DOMAIN first_unlock
                      => /\ jobs_'[id].contact_policy.unlocked_at
                                = first_unlock[id].unlocked_at
                         /\ jobs_'[id].contact_policy.unlocked_by_role
                                = first_unlock[id].unlocked_by_role]_vars

\* A second call by another role has answered, after compliance_notes was
\* rewritten in between
C17_Witness ==
    /\ last.op = "UnlockContact"
    /\ last.ok
    /\ last.id \in DOMAIN first_unlock
    /\ last.role # jobs_[last.id].contact_policy.unlocked_by_role
    /\ jobs_[last.id].compliance_notes # first_unlock[last.id].compliance_notes

\* C18: AddMessage pushes contact_coordinates:<message id> exactly when the
\* body matches the coordinate detector and the policy is locked at that
\* moment; a matching message added after UnlockContact gets no such flag;
\* and UnlockContact removes no flag.
C18_CoordinatesFlaggedOnlyBeforeUnlock ==
    [][\A id \in DOMAIN jobs_ :
          /\ (StoreCall("AddMessage", id) /\ last'.ok)
                => LET flag == "contact_coordinates:" \o last'.message.id
                   IN  /\ flag \in Range(Appended(id))
                            <=> /\ Detected[last'.message.body].coordinates
                                /\ ~jobs_[id].contact_policy.unlocked
                       /\ id \in DOMAIN first_unlock => flag \notin Range(Appended(id))
          /\ StoreCall("UnlockContact", id)
                => jobs_'[id].compliance_flags = jobs_[id].compliance_flags]_vars

\* C19: AddMessage pushes off_platform_hint:<message id> exactly when the
\* body matches the off-platform vocabulary, locked or unlocked and whatever
\* the coordinate detector says; a body matching both on a locked job gets
\* both flags for its message id, contact_coordinates first, as
\* "Call me on 0412 345 678" does.
C19_OffPlatformFlaggedAlways ==
    [][\A id \in DOMAIN jobs_ :
          (StoreCall("AddMessage", id) /\ last'.ok)
              => LET message == last'.message
                     coordinates == "contact_coordinates:" \o message.id
                     hint == "off_platform_hint:" \o message.id
                 IN  /\ jobs_'[id].compliance_flags
                            = jobs_[id].compliance_flags \o Appended(id)
                     /\ hint \in Range(Appended(id)) <=> Detected[message.body].hint
                     /\ ( /\ Detected[message.body].hint
                          /\ Detected[message.body].coordinates
                          /\ ~jobs_[id].contact_policy.unlocked )
                            => Appended(id) = << coordinates, hint >>
                     /\ ( /\ message.body = PhoneBody
                          /\ ~jobs_[id].contact_policy.unlocked )
                            => Appended(id) = << coordinates, hint >>]_vars

\* "Call me on 0412 345 678" was sent twice, before and after the unlock
C19_Witness ==
    /\ last.op = "AddMessage"
    /\ last.ok
    /\ last.message.body = PhoneBody
    /\ jobs_[last.id].contact_policy.unlocked
    /\ jobs_[last.id].compliance_flags
           = << "contact_coordinates:msg_10000", "off_platform_hint:msg_10000",
                "off_platform_hint:msg_10001" >>

\* C20: every contact policy an answer carries has the six masked fields of
\* the job; it has the full fields only when the role is admin or
\* finance_admin or the policy is unlocked as the answer is made, so a buyer,
\* seller or conveyancer never gets them for a locked job.
C20_FullFieldsOnlyWhenRevealed ==
    "contact_policy" \in DOMAIN last
        => \A id \in DOMAIN last.contact_policy :
              LET payload == last.contact_policy[id]
                  policy == jobs_[id].contact_policy
              IN  /\ "masked" \in DOMAIN payload
                  /\ payload.masked
                        = [buyer |-> [email |-> policy.buyer_email_masked,
                                      phone |-> policy.buyer_phone_masked],
                           seller |-> [email |-> policy.seller_email_masked,
                                       phone |-> policy.seller_phone_masked],
                           conveyancer |-> [email |-> policy.conveyancer_email_masked,
                                            phone |-> policy.conveyancer_phone_masked]]
                  /\ payload.unlocked = policy.unlocked
                  /\ "full" \in DOMAIN payload
                        => \/ last.role \in {"admin", "finance_admin"}
                           \/ policy.unlocked
                  /\ ( /\ last.role \in {"buyer", "seller", "conveyancer"}
                       /\ ~policy.unlocked )
                        => "full" \notin DOMAIN payload

\* A buyer read the contact policy of a locked job and got the masked fields only
C20_Witness ==
    /\ last.op = "GetContact"
    /\ last.ok
    /\ last.role = "buyer"
    /\ ~jobs_[last.id].contact_policy.unlocked
    /\ DOMAIN last.contact_policy[last.id] = {"unlocked", "requires_payment", "masked"}

\* C21 as stated: a contact policy in an answer holds unlock_token,
\* unlocked_at or unlocked_by_role only when include_internal was set, and
\* that is for an admin only: no caller of another role gets unlock_token.
C21_InternalFieldsForAdminOnly ==
    "contact_policy" \in DOMAIN last
        => \A id \in DOMAIN last.contact_policy :
              ({"unlock_token", "unlocked_at", "unlocked_by_role"}
                   \cap DOMAIN last.contact_policy[id]) # {}
                  => last.role = "admin"

\* C22: a job's contact policy goes from locked to unlocked only in a
\* POST /jobs/{id}/contact/unlock request made as finance_admin or admin with
\* the scoped token derived for that job id; an unlock request with no token
\* or another token is refused and leaves the contact policy as it was.
C22_UnlockOnlyWithRoleAndToken ==
    [][\A id \in DOMAIN jobs_ :
          /\ ( /\ ~jobs_[id].contact_policy.unlocked
               /\ jobs_'[id].contact_policy.unlocked )
                => /\ ops' # ops
                   /\ last'.op = "UnlockContact"
                   /\ last'.id = id
                   /\ last'.role \in {"finance_admin", "admin"}
                   /\ last'.token = DeriveScopedToken("contact", id)
          /\ ( /\ ops' # ops
               /\ last'.op = "UnlockContact"
               /\ last'.id = id
               /\ last'.token # DeriveScopedToken("contact", id) )
                => /\ ~last'.ok
                   /\ last'.status \in {HttpBadRequest, HttpForbidden}
                   /\ jobs_'[id].contact_policy = jobs_[id].contact_policy]_vars

\* A finance_admin has unlocked a job with its token, in the second request
\* made to the service
C22_Witness ==
    /\ last.op = "UnlockContact"
    /\ last.ok
    /\ last.role = "finance_admin"
    /\ last.token = DeriveScopedToken("contact", last.id)
    /\ jobs_[last.id].contact_policy.unlocked_at = "2024-03-10T00:00:01Z"

\* C27: compliance_flags is append-only: every JobStore operation leaves the
\* flags a job had as a prefix of the flags it has, and a flag pushed by
\* AddMessage carries the id of a message in the job's message list.
C27_FlagsAppendOnly ==
    [][\A id \in DOMAIN jobs_ :
          LET before == jobs_[id].compliance_flags
              after == jobs_'[id].compliance_flags
              message_ids ==
                  {jobs_'[id].messages[i].id : i \in DOMAIN jobs_'[id].messages}
          IN  /\ id \in DOMAIN jobs_'
              /\ Len(after) >= Len(before)
              /\ SubSeq(after, 1, Len(before)) = before
              /\ (StoreCall("AddMessage", id) /\ last'.ok)
                    => \A flag \in Range(Appended(id)) :
                          \E message_id \in message_ids :
                             flag \in {"contact_coordinates:" \o message_id,
                                       "off_platform_hint:" \o message_id}]_vars

\* C26: an invoice is created as a draft; UpdateStatus on an invoice that
\* exists sets its status to the one given, whatever its status was, and
\* leaves its other fields and every other invoice as they were; UpdateStatus
\* on an unknown id fails with not-found and changes nothing.
C26_UpdateStatusOverwritesOnly ==
    [][/\ last'.op = "CreateInvoice" => invoices_'[last'.id].status = kDraft
       /\ last'.op = "UpdateStatus"
            => LET id == last'.id
                   given == last'.arg
               IN  /\ last'.ok <=> id \in DOMAIN invoices_
                   /\ ~last'.ok => /\ invoices_' = invoices_
                                   /\ last'.status = HttpNotFound
                   /\ last'.ok
                        => /\ DOMAIN invoices_' = DOMAIN invoices_
                           /\ \A other \in DOMAIN invoices_ \ {id} :
                                 invoices_'[other] = invoices_[other]
                           /\ \A field \in DOMAIN invoices_[id] \ {"status"} :
                                 invoices_'[id][field] = invoices_[id][field]
                           /\ given = "draft" => invoices_'[id].status = kDraft
                           /\ given = "issued" => invoices_'[id].status = kIssued
                           /\ given = "paid" => invoices_'[id].status = kPaid
                           /\ given = "voided" => invoices_'[id].status = kVoided]_vars

\* An invoice has been voided while another one stands as paid
C26_Witness ==
    /\ last.op = "UpdateStatus"
    /\ last.ok
    /\ last.arg = "voided"
    /\ invoices_[last.id].status = kVoided
    /\ \E other \in DOMAIN invoices_ : invoices_[other].status = kPaid

\* C25: trust_payouts_ holds at most one payout per payment_id.  RecordPayout
\* succeeds exactly when the payment exists and is Released, whether or not a
\* payout is already on record; a successful call stores the payout it
\* returns under payment_id in place of any earlier one, GetPayout then
\* returns that payout, and the payouts of other payments stay as they were.
C25_PayoutReplacedNeverRefused ==
    [][IsCall("RecordPayout") =>
         \A payment_id \in {last'.id} :
            /\ last'.ok <=> (payment_id \in DOMAIN ledger_ /\ ledger_[payment_id].status = kReleased)
            /\ last'.ok =>
                  /\ DOMAIN trust_payouts_' = DOMAIN trust_payouts_ \cup {payment_id}
                  /\ trust_payouts_'[payment_id] = last'.payout
                  /\ last'.payout.payment_id = payment_id
                  /\ \A p \in DOMAIN trust_payouts_ \ {payment_id} : trust_payouts_'[p] = trust_payouts_[p]
            /\ ~last'.ok => trust_payouts_' = trust_payouts_]_vars

C25_Witness ==
    /\ last.op = "RecordPayout"
    /\ last.ok
    /\ last.replaced
    /\ GetPayout(last.id) = {last.payout}
    /\ last.payout.id = "payout_10001"

\* C23: SerializeStringArray returns a text for every list of strings, and
\* ParseStringArray of that text returns the list, element for element in
\* the same order; ParseStringArray of an absent payload, of an empty one
\* and of one that is not JSON returns the empty list.
C23_StringArrayRoundTrip ==
    /\ last.op = "SerializeStringArray" => ~last.throws
    /\ last.op = "ParseStringArray" =>
         /\ \A values \in last.of : last.parsed = values
         /\ (last.json_payload = {}
               \/ \E text \in last.json_payload : text = << >> \/ ~ParseJson(text).ok)
              => last.parsed = << >>

\* C24: every job in a conveyancer's completed-job set has a stored
\* CheckoutReceipt with that job_id, for a payment of that conveyancer.
C24_CreditedJobsHaveReceipt ==
    \A c \in DOMAIN completed_jobs_ : \A job_id \in completed_jobs_[c] :
        \E r \in DOMAIN checkouts_ :
            /\ checkouts_[r].job_id = job_id
            /\ checkouts_[r].payment_id \in DOMAIN ledger_
            /\ ledger_[checkouts_[r].payment_id].conveyancer_account_id = c

\* A successful checkout request whose service_fee_rate is absent or outside
\* [0, 0.25]
LoyaltyCheckout ==
    /\ last'.op = "PostCheckout"
    /\ last'.ok
    /\ ledger_' # ledger_
    /\ RequireDoubleInRange(last'.service_fee_rate, 0, 250) = {}

\* The jobs credited to conveyancer c
Credited(c) == IF c \in DOMAIN completed_jobs_ THEN completed_jobs_[c] ELSE {}

C30_ReceiptInvoiceMatches ==
    \A r \in DOMAIN checkouts_ :
        checkouts_[r].invoice_id # "" =>
            /\ checkouts_[r].invoice_id \in DOMAIN invoices_
            /\ invoices_[checkouts_[r].invoice_id].job_id = checkouts_[r].job_id
            /\ invoices_[checkouts_[r].invoice_id].subtotal_cents = checkouts_[r].total_cents

\* C29: a checkout request that is answered 404, 409 or 400 leaves the
\* invoice ledger as it was when the request arrived, so that, once every
\* request is answered, each invoice of the invoice ledger is the invoice_id
\* of a stored receipt, whatever the interleaving of the requests.
C29_NoInvoiceWithoutReceipt ==
    (\A t \in DOMAIN pc : pc[t] = "done") =>
        \A id \in DOMAIN invoices_ :
            \E r \in DOMAIN checkouts_ : checkouts_[r].invoice_id = id

====
